---- MODULE Spec2Model ----
(***************************************************************************)
(* Clortho license service: the license table and its link tables, the     *)
(* check pipeline (CheckLicenseHandler), the admin handlers that create,   *)
(* update, revoke and purge licenses, the offline token signer and the     *)
(* audit entries a request emits.                                          *)
(*                                                                         *)
(* Strings that the key generator works on byte by byte (prefix,           *)
(* separator, charset, key) are sequences of byte values.  IP texts are    *)
(* records [form, fam, bits, len]; an address is [fam, bits] with bits a   *)
(* sequence of 0/1 (a shortened address width).  An absent *time.Time is   *)
(* <<>> and a set one is <<t>>.  A gin.H / map[string]interface{} is a     *)
(* function whose DOMAIN is the set of keys present.                       *)
(***************************************************************************)
EXTENDS Integers, Sequences, FiniteSets, TLC

VARIABLES
    products,          \* products table: product id -> row
    product_groups,    \* product_groups table: group id -> row
    features,          \* features table: set of rows
    releases,          \* releases table: set of rows
    licenses,          \* licenses table: set of rows (key is UNIQUE)
    license_features,  \* license_features table: set of <<license_id, feature_id>>
    license_releases,  \* license_releases table: set of <<license_id, release_id>>
    nextLicenseID,     \* number of license ids uuid.New() has given to stored rows
    now,               \* wall clock (time.Now())
    signingKey,        \* Config.ResponseSigningPrivateKey
    dbDown,            \* the database cannot be reached: every query fails
    limiters,          \* per rate-limit pool: client IP -> tokens left
    ctx,               \* gin.Context of the request: route pool, ClientIP, aborted
    call,              \* a call of a service function: its arguments and progress
    threads,           \* requests served concurrently: goroutine -> its locals
    lru,               \* the admin RateLimiter's ips followed object by object
    req,               \* the request being answered
    resp,              \* its HTTP response: [code, body]
    checkLogs,         \* LicenseCheckLog entries the request dispatched
    adminLogs,         \* AdminLog entries the request dispatched
    revokedOnce,       \* keys for which a revoke request has returned 200
    purgedOnce,        \* keys for which a purge request has returned 200
    revokedSince,      \* ... and no later update set a status, no later purge
    purgedSince        \* ... and no later generate created the key again

vars == <<products, product_groups, features, releases, licenses,
          license_features, license_releases, nextLicenseID, now, signingKey,
          dbDown, limiters, ctx, call, threads, lru,
          req, resp, checkLogs, adminLogs,
          revokedOnce, purgedOnce, revokedSince, purgedSince>>

catalog == <<products, product_groups, features, releases>>
database == <<catalog, licenses, license_features, license_releases, nextLicenseID>>
requests == <<req, resp, checkLogs, adminLogs>>
environment == <<signingKey, dbDown>>
middleware == <<limiters, ctx>>
inflight == <<call, threads, lru>>
history == <<revokedOnce, purgedOnce, revokedSince, purgedSince>>

-----------------------------------------------------------------------------
(* Bounds of the model *)

MaxTime == 1        \* the clock runs 0..MaxTime
MaxGenerated == 1   \* licenses created over a run
MaxDrawn == 32      \* outcomes of the random draws of one key followed in full
MaxBuilder == 8     \* bytes of a strings.Builder that are followed
MaxGoroutines == 2  \* log-writing goroutines alive at a time
MaxConcurrent == 2  \* requests served at the same time
MaxAccepted == 4    \* requests that reach the rate limiter over a run

-----------------------------------------------------------------------------
(* Generic helpers *)

Range(s) == {s[i] : i \in 1..Len(s)}

NoTime == <<>>
At(t) == <<t>>

\* time.Time.Before: strictly earlier
Before(t, u) == t < u

-----------------------------------------------------------------------------
(* IP texts, net.ParseIP, net.ParseCIDR, IP.Equal, IPNet.Contains *)

IPText(fam, bits) == [form |-> "addr", fam |-> fam, bits |-> bits, len |-> 0]
CIDRText(fam, bits, len) == [form |-> "cidr", fam |-> fam, bits |-> bits, len |-> len]
JunkText == [form |-> "junk", fam |-> 0, bits |-> <<>>, len |-> 0]

NilIP == [fam |-> 0, bits |-> <<>>]

\* net.ParseIP: the address of a literal, nil for anything else (a text with
\* a /len suffix included)
ParseIP(t) ==
    IF t.form = "addr" THEN [fam |-> t.fam, bits |-> t.bits] ELSE NilIP

\* the network number: the address with the bits after the prefix cleared
Masked(bits, len) == [i \in 1..Len(bits) |-> IF i <= len THEN bits[i] ELSE 0]

\* net.ParseCIDR: the address as written and the network it implies
ParseCIDR(t) ==
    IF t.form = "cidr" /\ t.len <= Len(t.bits)
    THEN [err |-> FALSE,
          ip |-> [fam |-> t.fam, bits |-> t.bits],
          net |-> [fam |-> t.fam, bits |-> Masked(t.bits, t.len), len |-> t.len]]
    ELSE [err |-> TRUE, ip |-> NilIP, net |-> [fam |-> 0, bits |-> <<>>, len |-> 0]]

\* net.IP.Equal
IPEqual(a, b) == a.fam = b.fam /\ a.bits = b.bits

\* a faulty Contains that compares every bit, the host bits included
ContainsWholeAddress(net, ip) ==
    /\ net.fam = ip.fam
    /\ Len(net.bits) = Len(ip.bits)
    /\ \A i \in 1..Len(net.bits) : ip.bits[i] = net.bits[i]

\* net.IPNet.Contains
Contains(net, ip) ==
    /\ net.fam = ip.fam
    /\ Len(net.bits) = Len(ip.bits)
    /\ \A i \in 1..net.len : ip.bits[i] = net.bits[i]

-----------------------------------------------------------------------------
(* PostgreSQL column types of the licenses table: allowed_ips inet[],      *)
(* allowed_networks cidr[]; both are read back through ::text[].           *)

\* inet input: an address (mask = full width) or address/len with the host
\* bits kept; anything else is rejected by the server
InetIn(t) ==
    IF t.form = "addr"
    THEN [err |-> FALSE, val |-> [fam |-> t.fam, bits |-> t.bits, len |-> Len(t.bits)]]
    ELSE IF t.form = "cidr" /\ t.len <= Len(t.bits)
    THEN [err |-> FALSE, val |-> [fam |-> t.fam, bits |-> t.bits, len |-> t.len]]
    ELSE [err |-> TRUE, val |-> [fam |-> 0, bits |-> <<>>, len |-> 0]]

\* cidr input: as inet, but bits to the right of the mask must be zero
CidrIn(t) ==
    LET v == InetIn(t)
    IN  IF ~v.err /\ Masked(v.val.bits, v.val.len) = v.val.bits
        THEN v
        ELSE [err |-> TRUE, val |-> [fam |-> 0, bits |-> <<>>, len |-> 0]]

\* the cast to text always writes address/len
NetOut(v) == CIDRText(v.fam, v.bits, v.len)

\* an array parameter is rejected as a whole if one element is
InetArrayIn(texts) ==
    IF \E i \in 1..Len(texts) : InetIn(texts[i]).err
    THEN [err |-> TRUE, val |-> <<>>]
    ELSE [err |-> FALSE, val |-> [i \in 1..Len(texts) |-> InetIn(texts[i]).val]]

CidrArrayIn(texts) ==
    IF \E i \in 1..Len(texts) : CidrIn(texts[i]).err
    THEN [err |-> TRUE, val |-> <<>>]
    ELSE [err |-> FALSE, val |-> [i \in 1..Len(texts) |-> CidrIn(texts[i]).val]]

ArrayOut(vals) == [i \in 1..Len(vals) |-> NetOut(vals[i])]

-----------------------------------------------------------------------------
(* PostgresLicenseStore reads *)

NoLicense == [ID |-> "", Key |-> <<>>, Type |-> "", ProductID |-> "",
              AllowedIPs |-> <<>>, AllowedNetworks |-> <<>>, ExpiresAt |-> NoTime,
              Features |-> {}, Releases |-> {}, Status |-> ""]

\* array_agg(DISTINCT f.code) over
\*   LEFT JOIN license_features lf ON l.id = lf.license_id
\*   LEFT JOIN features f ON lf.feature_id = f.id
JoinedFeatures(l) ==
    {f.code : f \in {g \in features :
        \E lf \in license_features : l.id = lf[1] /\ lf[2] = g.id}}

\* array_agg(DISTINCT r.version) over
\*   LEFT JOIN license_releases lr ON l.id = lr.release_id
\*   LEFT JOIN releases r ON lr.release_id = r.id
JoinedReleases(l) ==
    {r.version : r \in {g \in releases :
        \E lr \in license_releases : l.id = lr[2] /\ lr[2] = g.id}}

ScanLicense(l) ==
    [ID |-> l.id, Key |-> l.key, Type |-> l.type, ProductID |-> l.product_id,
     AllowedIPs |-> ArrayOut(l.allowed_ips),
     AllowedNetworks |-> ArrayOut(l.allowed_networks),
     ExpiresAt |-> l.expires_at,
     Features |-> JoinedFeatures(l), Releases |-> JoinedReleases(l),
     Status |-> l.status]

GetLicenseByKey(key) ==
    LET rows == {l \in licenses : l.key = key}
    IN  IF dbDown
        THEN [err |-> "failed to get license", license |-> NoLicense]
        ELSE IF rows = {}
        THEN [err |-> "ErrNotFound", license |-> NoLicense]
        ELSE [err |-> "", license |-> ScanLicense(CHOOSE l \in rows : TRUE)]

-----------------------------------------------------------------------------
(* service.SignLicense *)

PrivateKeySize == 64

NoToken == [sub |-> <<>>, iss |-> "", valid |-> FALSE, features |-> {}, exp |-> NoTime]

\* privateKeyBase64 is [text, base64, size]: whether the text is empty,
\* whether it decodes as base64, and the number of bytes it decodes to
SignLicense(privateKeyBase64, key, expiresAt, valid, feats) ==
    IF privateKeyBase64.text = ""
    THEN [err |-> "private key is empty", token |-> NoToken]
    ELSE IF ~privateKeyBase64.base64
    THEN [err |-> "failed to decode private key", token |-> NoToken]
    ELSE IF privateKeyBase64.size # PrivateKeySize
    THEN [err |-> "invalid private key size", token |-> NoToken]
    ELSE [err |-> "",
          token |-> [sub |-> key, iss |-> "clortho", valid |-> valid,
                     features |-> feats, exp |-> expiresAt]]

-----------------------------------------------------------------------------
(* CheckLicenseHandler: GET /check *)

\* the loop over license.AllowedIPs: an entry that is no literal is read as
\* address/len, an entry that is neither is skipped
RECURSIVE MatchAllowedIPs(_, _, _)
MatchAllowedIPs(allowed, i, clientIP) ==
    IF i > Len(allowed) THEN FALSE
    ELSE LET lit == ParseIP(allowed[i])
             cidr == ParseCIDR(allowed[i])
         IN  IF lit = NilIP /\ cidr.err
             THEN MatchAllowedIPs(allowed, i + 1, clientIP)
             ELSE LET allowedIP == IF lit = NilIP THEN cidr.ip ELSE lit
                  IN  IF IPEqual(allowedIP, clientIP) THEN TRUE
                      ELSE MatchAllowedIPs(allowed, i + 1, clientIP)

\* the loop over license.AllowedNetworks
RECURSIVE MatchAllowedNetworks(_, _, _)
MatchAllowedNetworks(nets, i, clientIP) ==
    IF i > Len(nets) THEN FALSE
    ELSE LET cidr == ParseCIDR(nets[i])
         IN  IF ~cidr.err /\ Contains(cidr.net, clientIP) THEN TRUE
             ELSE MatchAllowedNetworks(nets, i + 1, clientIP)

\* a faulty status step that trusts the stored status for expiry
StatusStepStoredFlag(license, t) ==
    IF license.Status = "revoked"
    THEN [valid |-> FALSE, reason |-> "License is revoked"]
    ELSE IF license.Status = "expired"
    THEN [valid |-> FALSE, reason |-> "License has expired"]
    ELSE [valid |-> TRUE, reason |-> ""]

\* step 1 and 2: status, then expiration
StatusStep(license, t) ==
    IF license.Status = "revoked"
    THEN [valid |-> FALSE, reason |-> "License is revoked"]
    ELSE IF license.ExpiresAt # NoTime /\ Before(license.ExpiresAt[1], t)
    THEN [valid |-> FALSE, reason |-> "License has expired"]
    ELSE [valid |-> TRUE, reason |-> ""]

\* step 3: IP restrictions
IPStep(prev, license, clientIPStr) ==
    IF prev.valid /\ (Len(license.AllowedIPs) > 0 \/ Len(license.AllowedNetworks) > 0)
    THEN LET clientIP == ParseIP(clientIPStr)
         IN  IF clientIP = NilIP
             THEN [valid |-> FALSE, reason |-> "Unable to determine client IP for validation"]
             ELSE LET byIP == Len(license.AllowedIPs) > 0
                              /\ MatchAllowedIPs(license.AllowedIPs, 1, clientIP)
                      ipAllowed ==
                          \/ byIP
                          \/ /\ Len(license.AllowedNetworks) > 0
                             /\ MatchAllowedNetworks(license.AllowedNetworks, 1, clientIP)
                  IN  IF ~ipAllowed
                      THEN [valid |-> FALSE, reason |-> "IP address not allowed"]
                      ELSE prev
    ELSE prev

\* step 4: version query
VersionStep(prev, license, version) ==
    IF version # "" /\ prev.valid
    THEN LET versionAllowed ==
                 IF Cardinality(license.Releases) = 0 THEN TRUE
                 ELSE \E v \in license.Releases : v = version
         IN  IF ~versionAllowed
             THEN [valid |-> FALSE, reason |-> "License not valid for version " \o version]
             ELSE prev
    ELSE prev

\* a faulty feature step that reads an empty Features as no restriction
FeatureStepEmptyAllowsAll(prev, license, feature) ==
    IF feature # "" /\ prev.valid
    THEN LET featureAllowed ==
                 IF Cardinality(license.Features) = 0 THEN TRUE
                 ELSE \E code \in license.Features : code = feature
         IN  IF ~featureAllowed
             THEN [valid |-> FALSE, reason |-> "Feature not enabled: " \o feature]
             ELSE prev
    ELSE prev

\* step 5: feature query
FeatureStep(prev, license, feature) ==
    IF feature # "" /\ prev.valid
    THEN LET featureAllowed == \E code \in license.Features : code = feature
         IN  IF ~featureAllowed
             THEN [valid |-> FALSE, reason |-> "Feature not enabled: " \o feature]
             ELSE prev
    ELSE prev

\* a faulty pipeline that runs the feature step ahead of the others
ValidateFeatureFirst(license, clientIPStr, version, feature, t) ==
    LET first == FeatureStep([valid |-> TRUE, reason |-> ""], license, feature)
    IN  IF ~first.valid THEN first
        ELSE VersionStep(
                 IPStep(StatusStep(license, t), license, clientIPStr),
                 license, version)

\* the five steps in the handler's order
Validate(license, clientIPStr, version, feature, t) ==
    FeatureStep(
        VersionStep(
            IPStep(StatusStep(license, t), license, clientIPStr),
            license, version),
        license, feature)

\* a faulty body that always carries the reason field
ResponseBodyAlwaysReason(outcome, license) ==
    [valid |-> outcome.valid, expires_at |-> license.ExpiresAt,
     reason |-> outcome.reason]

\* response := gin.H{valid, expires_at}; reason only if non-empty
ResponseBody(outcome, license) ==
    LET base == [valid |-> outcome.valid, expires_at |-> license.ExpiresAt]
    IN  IF outcome.reason # "" THEN base @@ [reason |-> outcome.reason] ELSE base

\* a faulty signing step that turns a signing failure into the response
WithTokenOrFail(body, privateKey, key, license, valid) ==
    IF privateKey.text # ""
    THEN LET signed == SignLicense(privateKey, key, license.ExpiresAt, valid,
                                   license.Features)
         IN  IF signed.err # "" THEN [error |-> signed.err]
             ELSE body @@ [token |-> signed.token]
    ELSE body

\* the token is added only when a key is configured and signing succeeded
WithToken(body, privateKey, key, license, valid) ==
    IF privateKey.text # ""
    THEN LET signed == SignLicense(privateKey, key, license.ExpiresAt, valid,
                                   license.Features)
         IN  IF signed.err # "" THEN body ELSE body @@ [token |-> signed.token]
    ELSE body

NilPayload == <<>>

\* the entry the deferred AsyncLogLicenseCheck dispatches
LogEntry(key, clientIPStr, version, feature, statusCode, payload, license) ==
    [LicenseKey |-> key, IPAddress |-> clientIPStr,
     RequestPayload |-> [version |-> version, feature |-> feature],
     StatusCode |-> statusCode, ResponsePayload |-> payload,
     ProductID |-> license.ProductID, LicenseID |-> license.ID,
     CreatedAt |-> now]

\* the handler built for a signing key: [code, body, logs]
CheckLicenseHandler(responseSigningPrivateKey, key, clientIPStr, version, feature) ==
    IF key = <<>>
    THEN \* requireLicenseKey failed; the deferred log still runs
         [code |-> 400,
          body |-> [error |-> "X-License-Key header is required"],
          logs |-> <<LogEntry(key, clientIPStr, version, feature, 0, NilPayload, NoLicense)>>]
    ELSE LET got == GetLicenseByKey(key)
         IN  IF got.err # ""
             THEN LET body == [error |-> "License not found"]
                  IN  [code |-> 404, body |-> body,
                       logs |-> <<LogEntry(key, clientIPStr, version, feature, 404, body, NoLicense)>>]
             ELSE LET license == got.license
                      outcome == Validate(license, clientIPStr, version, feature, now)
                      body == WithToken(ResponseBody(outcome, license),
                                        responseSigningPrivateKey,
                                        key, license, outcome.valid)
                  IN  [code |-> 200, body |-> body,
                       logs |-> <<LogEntry(key, clientIPStr, version, feature, 200, body, license)>>]

-----------------------------------------------------------------------------
(* service.ParseCharset and service.GenerateLicenseKey *)

Comma == 44
Dash == 45

\* "abcdefghijklmnopqrstuvwxyzABCDEFGHIJKLMNOPQRSTUVWXYZ0123456789"
defaultCharset ==
    [i \in 1..62 |-> IF i <= 26 THEN 96 + i ELSE IF i <= 52 THEN 38 + i ELSE i - 5]

\* strings.Split(input, ",")
RECURSIVE Split(_, _)
Split(input, cur) ==
    IF input = <<>> THEN <<cur>>
    ELSE IF Head(input) = Comma THEN <<cur>> \o Split(Tail(input), <<>>)
    ELSE Split(Tail(input), Append(cur, Head(input)))

\* for i := start; i <= end; i++ over a byte: with end = 255 the counter
\* wraps and the loop never ends
RangeBytes(start, end) == [i \in 1..(end - start + 1) |-> start + i - 1]

RECURSIVE ExpandParts(_, _, _)
ExpandParts(parts, i, out) ==
    IF i > Len(parts) THEN [err |-> "", hangs |-> FALSE, charset |-> out]
    ELSE LET part == parts[i]
         IN  IF Len(part) = 3 /\ part[2] = Dash
             THEN IF part[1] > part[3]
                  THEN [err |-> "invalid range", hangs |-> FALSE, charset |-> <<>>]
                  ELSE IF part[3] = 255
                  THEN [err |-> "", hangs |-> TRUE, charset |-> <<>>]
                  ELSE ExpandParts(parts, i + 1, out \o RangeBytes(part[1], part[3]))
             ELSE ExpandParts(parts, i + 1, out \o part)

ParseCharset(input) ==
    IF input = <<>>
    THEN [err |-> "", hangs |-> FALSE, charset |-> defaultCharset]
    ELSE ExpandParts(Split(input, <<>>), 1, <<>>)

\* whether k^n stays within cap
RECURSIVE Within(_, _, _)
Within(n, k, cap) ==
    IF n = 0 THEN cap >= 1 ELSE k >= 1 /\ Within(n - 1, k, cap \div k)

\* the outcomes of the n calls of rand.Int, each below k, that are followed:
\* all of them while they are few, otherwise the two in which every draw
\* returns the first index, or every draw the last one
Draws(n, k) ==
    IF Within(n, k, MaxDrawn) THEN [1..n -> 1..k]
    ELSE {[i \in 1..n |-> 1], [i \in 1..n |-> k]}

\* a faulty generator that leaves the separator out
GenerateLicenseKeyNoSeparator(prefix, length, separator, charset) ==
    LET n == IF length <= 0 THEN 12 ELSE length
        usedCharset == IF charset # <<>> THEN charset ELSE defaultCharset
    IN  {prefix \o [i \in 1..n |-> usedCharset[nums[i]]] :
            nums \in Draws(n, Len(usedCharset))}

\* the keys GenerateLicenseKey can return: one per outcome of the random draws
GenerateLicenseKey(prefix, length, separator, charset) ==
    LET n == IF length <= 0 THEN 12 ELSE length
        sep == IF separator = <<>> THEN <<Dash>> ELSE separator
        usedCharset == IF charset # <<>> THEN charset ELSE defaultCharset
    IN  {IF prefix # <<>> THEN prefix \o sep \o randomString ELSE randomString :
            randomString \in {[i \in 1..n |-> usedCharset[nums[i]]] :
                                 nums \in Draws(n, Len(usedCharset))}}

-----------------------------------------------------------------------------
(* handlers.ParseExpirationDuration *)

\* a duration text is [empty, short, numeric, val, unit]: whether it is "",
\* shorter than two bytes, whether the part before the unit is a number,
\* that number, and the unit
Duration(val, unit) ==
    [empty |-> FALSE, short |-> FALSE, numeric |-> TRUE, val |-> val, unit |-> unit]
NoDuration ==
    [empty |-> TRUE, short |-> TRUE, numeric |-> FALSE, val |-> 0, unit |-> ""]
NotANumber(unit) ==
    [empty |-> FALSE, short |-> FALSE, numeric |-> FALSE, val |-> 0, unit |-> unit]

\* the clock counts minutes; a month is taken as 30 days, a year as 365
ParseExpirationDuration(d, t) ==
    IF d.short THEN [err |-> "duration too short", time |-> 0]
    ELSE IF ~d.numeric THEN [err |-> "invalid number", time |-> 0]
    ELSE IF d.unit = "m" THEN [err |-> "", time |-> t + d.val]
    ELSE IF d.unit = "h" THEN [err |-> "", time |-> t + 60 * d.val]
    ELSE IF d.unit = "d" THEN [err |-> "", time |-> t + 1440 * d.val]
    ELSE IF d.unit = "w" THEN [err |-> "", time |-> t + 1440 * 7 * d.val]
    ELSE IF d.unit = "mo" THEN [err |-> "", time |-> t + 43200 * d.val]
    ELSE IF d.unit = "y" THEN [err |-> "", time |-> t + 525600 * d.val]
    ELSE [err |-> "unknown unit", time |-> 0]

-----------------------------------------------------------------------------
(* PostgresLicenseStore writes.  Each returns the error and the three      *)
(* tables as the transaction leaves them (unchanged on error: rollback).   *)

Null == <<>>

LicenseTypes == {"perpetual", "timed", "trial"}
LicenseStatuses == {"active", "revoked", "expired"}

Tables(err, ls, lfs, lrs) ==
    [err |-> err, licenses |-> ls, license_features |-> lfs, license_releases |-> lrs]

\* INSERT INTO license_features ... SELECT $1, f.id FROM features f
\*   JOIN products p ON p.id = $2
\*   WHERE (f.product_id = $2 OR (f.product_group_id = p.product_group_id
\*          AND f.product_group_id IS NOT NULL)) AND f.code = ANY($3)
LinkFeatures(licenseID, productID, codes) ==
    {<<licenseID, f.id>> : f \in {g \in features :
        /\ productID \in DOMAIN products
        /\ \/ g.product_id = <<productID>>
           \/ /\ g.product_group_id = products[productID].product_group_id
              /\ g.product_group_id # Null
        /\ g.code \in codes}}

\* the same statement over releases and r.version
LinkReleases(licenseID, productID, versions) ==
    {<<licenseID, r.id>> : r \in {g \in releases :
        /\ productID \in DOMAIN products
        /\ \/ g.product_id = <<productID>>
           \/ /\ g.product_group_id = products[productID].product_group_id
              /\ g.product_group_id # Null
        /\ g.version \in versions}}

CreateLicense(license) ==
    LET ips == InetArrayIn(license.AllowedIPs)
        nets == CidrArrayIn(license.AllowedNetworks)
        row == [id |-> license.ID, key |-> license.Key, type |-> license.Type,
                status |-> license.Status, product_id |-> license.ProductID,
                allowed_ips |-> ips.val, allowed_networks |-> nets.val,
                expires_at |-> license.ExpiresAt,
                auto_allowed_ip |-> FALSE, auto_allowed_ip_limit |-> 0]
        rejected ==
            \/ dbDown
            \/ ips.err \/ nets.err
            \/ license.Type \notin LicenseTypes
            \/ license.Status \notin LicenseStatuses
            \/ license.ProductID \notin DOMAIN products
            \/ \E l \in licenses : l.key = license.Key \/ l.id = license.ID
    IN  IF rejected
        THEN Tables("failed to create license", licenses, license_features, license_releases)
        ELSE Tables("",
                licenses \cup {row},
                license_features \cup
                    (IF Cardinality(license.Features) > 0
                     THEN LinkFeatures(license.ID, license.ProductID, license.Features)
                     ELSE {}),
                license_releases \cup
                    (IF Cardinality(license.Releases) > 0
                     THEN LinkReleases(license.ID, license.ProductID, license.Releases)
                     ELSE {}))

UpdateLicense(license) ==
    LET ips == InetArrayIn(license.AllowedIPs)
        nets == CidrArrayIn(license.AllowedNetworks)
        rejected ==
            \/ dbDown
            \/ ips.err \/ nets.err
            \/ license.Type \notin LicenseTypes
            \/ license.Status \notin LicenseStatuses
        hit == {l \in licenses : l.key = license.Key}
        set(l) == [l EXCEPT !.type = license.Type,
                            !.expires_at = license.ExpiresAt,
                            !.allowed_ips = ips.val,
                            !.allowed_networks = nets.val,
                            !.status = license.Status]
    IN  IF rejected
        THEN Tables("failed to update license", licenses, license_features, license_releases)
        ELSE IF hit = {}
        THEN Tables("ErrNotFound", licenses, license_features, license_releases)
        ELSE Tables("",
                (licenses \ hit) \cup {set(l) : l \in hit},
                {lf \in license_features : lf[1] # license.ID} \cup
                    (IF Cardinality(license.Features) > 0
                     THEN LinkFeatures(license.ID, license.ProductID, license.Features)
                     ELSE {}),
                {lr \in license_releases : lr[1] # license.ID} \cup
                    (IF Cardinality(license.Releases) > 0
                     THEN LinkReleases(license.ID, license.ProductID, license.Releases)
                     ELSE {}))

\* DELETE FROM licenses WHERE key = $1; the link tables reference
\* licenses(id) ON DELETE CASCADE
DeleteLicense(key) ==
    LET hit == {l \in licenses : l.key = key}
        ids == {l.id : l \in hit}
    IN  IF dbDown
        THEN Tables("failed to delete license", licenses, license_features, license_releases)
        ELSE IF hit = {}
        THEN Tables("ErrNotFound", licenses, license_features, license_releases)
        ELSE Tables("",
                licenses \ hit,
                {lf \in license_features : lf[1] \notin ids},
                {lr \in license_releases : lr[1] \notin ids})

-----------------------------------------------------------------------------
(* Request bodies.  A slice that the JSON may leave out is [isNil, v].     *)

NilList == [isNil |-> TRUE, v |-> <<>>]
List(v) == [isNil |-> FALSE, v |-> v]

EmptyString == <<>>

generateLicenseRequest(productID, type, expiresAt, duration, featureCodes, releaseVersions, allowedIPs, allowedNetworks) ==
    [ProductID |-> productID, Type |-> type, ExpiresAt |-> expiresAt,
     Duration |-> duration, Prefix |-> EmptyString, Length |-> 0,
     FeatureCodes |-> featureCodes, ReleaseVersions |-> releaseVersions,
     AllowedIPs |-> allowedIPs, AllowedNetworks |-> allowedNetworks]

updateLicenseRequest(type, expiresAt, duration, featureCodes, releaseVersions, allowedIPs, allowedNetworks, status) ==
    [Type |-> type, ExpiresAt |-> expiresAt, Duration |-> duration,
     FeatureCodes |-> featureCodes, ReleaseVersions |-> releaseVersions,
     AllowedIPs |-> allowedIPs, AllowedNetworks |-> allowedNetworks,
     Status |-> status]

NoBody == <<>>

\* the requests are served one after the other: no request is being answered
NoRequest == [op |-> "none", key |-> EmptyString, ip |-> JunkText, version |-> "",
              feature |-> "", body |-> NoBody]
NoResponse == [code |-> 0, body |-> NoBody]

\* no service function is being called; no request is served concurrently
NoCall == [fn |-> ""]
NoThreads == <<>>

\* expirable.NewLRU: no entry, no rate.Limiter made yet; `admitted` counts per
\* address the requests passed on to c.Next(), `accepted` the requests received
NoLRU == [cache |-> <<>>, objects |-> <<>>, admitted |-> <<>>, accepted |-> 0]
Idle == req = NoRequest

-----------------------------------------------------------------------------
(* GenerateLicenseHandler: POST /admin/keys *)

\* a faulty resolver in which the group's prefix wins over the product's
ResolveSettingsGroupFirst(r, product) ==
    LET grouped == product.product_group_id # Null
                   /\ product.product_group_id[1] \in DOMAIN product_groups
        group == product_groups[product.product_group_id[1]]
        prefix1 == IF grouped /\ group.license_prefix # EmptyString
                   THEN group.license_prefix ELSE product.license_prefix
        separator1 ==
            IF /\ grouped
               /\ product.license_separator = EmptyString
                  \/ product.license_separator = <<Dash>>
               /\ group.license_separator # EmptyString
            THEN group.license_separator ELSE product.license_separator
        charset1 == IF grouped /\ product.license_charset = EmptyString
                    THEN group.license_charset ELSE product.license_charset
        length0 == IF r.Length = 0 THEN product.license_length ELSE r.Length
        length1 == IF grouped /\ length0 = 0 THEN group.license_length ELSE length0
    IN  [prefix |-> IF prefix1 = EmptyString THEN <<76, 73, 67, 69, 78, 83, 69>>
                    ELSE prefix1,
         separator |-> separator1, charsetRaw |-> charset1,
         length |-> IF length1 <= 0 THEN 12 ELSE length1]

\* prefix, separator, charset and length with inheritance from the group
ResolveSettings(r, product) ==
    LET length0 == IF r.Length = 0 THEN product.license_length ELSE r.Length
        grouped == product.product_group_id # Null
                   /\ product.product_group_id[1] \in DOMAIN product_groups
        group == product_groups[product.product_group_id[1]]
        prefix1 == IF grouped /\ product.license_prefix = EmptyString
                   THEN group.license_prefix ELSE product.license_prefix
        separator1 ==
            IF /\ grouped
               /\ product.license_separator = EmptyString
                  \/ product.license_separator = <<Dash>>
               /\ group.license_separator # EmptyString
            THEN group.license_separator ELSE product.license_separator
        charset1 == IF grouped /\ product.license_charset = EmptyString
                    THEN group.license_charset ELSE product.license_charset
        length1 == IF grouped /\ length0 = 0 THEN group.license_length ELSE length0
        length2 == IF length1 <= 0 THEN 12 ELSE length1
        prefix2 == IF prefix1 = EmptyString THEN <<76, 73, 67, 69, 78, 83, 69>> ELSE prefix1
        prefix3 == IF r.Prefix # EmptyString THEN r.Prefix ELSE prefix2
    IN  [prefix |-> prefix3, separator |-> separator1,
         charsetRaw |-> charset1, length |-> length2]

\* a faulty handler that lets expires_at win when duration is set as well
GeneratePrepareNoExclusion(r) ==
    IF r.ProductID = "" \/ r.Type = ""
    THEN [code |-> 400, error |-> "binding"]
    ELSE LET exp == ParseExpirationDuration(r.Duration, now)
         IN  IF r.ExpiresAt = NoTime /\ ~r.Duration.empty /\ exp.err # ""
             THEN [code |-> 400, error |-> "Invalid duration format"]
             ELSE IF r.ProductID \notin DOMAIN products
             THEN [code |-> 400, error |-> "Invalid product_id or product not found"]
             ELSE LET settings == ResolveSettings(r, products[r.ProductID])
                      parsed == ParseCharset(settings.charsetRaw)
                  IN  IF parsed.err # ""
                      THEN [code |-> 400, error |-> "Invalid charset configuration"]
                      ELSE [code |-> 0, error |-> "",
                            settings |-> settings, charset |-> parsed.charset,
                            expiresAt |-> IF r.ExpiresAt # NoTime THEN r.ExpiresAt
                                          ELSE IF ~r.Duration.empty THEN At(exp.time)
                                          ELSE NoTime]

\* the part of the handler before the key is drawn: an error response, or
\* the settings and expiry the license will be built from
GeneratePrepare(r) ==
    IF r.ProductID = "" \/ r.Type = ""
    THEN [code |-> 400, error |-> "binding"]
    ELSE IF r.ExpiresAt # NoTime /\ ~r.Duration.empty
    THEN [code |-> 400, error |-> "Cannot specify both expires_at and duration"]
    ELSE LET exp == ParseExpirationDuration(r.Duration, now)
         IN  IF r.ExpiresAt = NoTime /\ ~r.Duration.empty /\ exp.err # ""
             THEN [code |-> 400, error |-> "Invalid duration format"]
             ELSE IF r.ProductID \notin DOMAIN products
             THEN [code |-> 400, error |-> "Invalid product_id or product not found"]
             ELSE LET settings == ResolveSettings(r, products[r.ProductID])
                      parsed == ParseCharset(settings.charsetRaw)
                  IN  IF parsed.err # ""
                      THEN [code |-> 400, error |-> "Invalid charset configuration"]
                      ELSE [code |-> 0, error |-> "",
                            settings |-> settings, charset |-> parsed.charset,
                            expiresAt |-> IF r.ExpiresAt # NoTime THEN r.ExpiresAt
                                          ELSE IF ~r.Duration.empty THEN At(exp.time)
                                          ELSE NoTime]

\* license := &models.License{...}
NewLicense(r, id, key, expiresAt) ==
    [ID |-> id, Key |-> key, Type |-> r.Type, ProductID |-> r.ProductID,
     AllowedIPs |-> r.AllowedIPs, AllowedNetworks |-> r.AllowedNetworks,
     ExpiresAt |-> expiresAt,
     Features |-> IF Len(r.FeatureCodes) > 0 THEN Range(r.FeatureCodes) ELSE {},
     Releases |-> IF Len(r.ReleaseVersions) > 0 THEN Range(r.ReleaseVersions) ELSE {},
     Status |-> "active"]

AdminLog(action, entityID, details) ==
    [Action |-> action, EntityType |-> "LICENSE", EntityID |-> entityID,
     Details |-> details, CreatedAt |-> now]

\* uuid.New()
NewUUID(n) == "license-" \o ToString(n)

Respond(op, key, body, code, responseBody, logs) ==
    /\ req' = [op |-> op, key |-> key, ip |-> JunkText, version |-> "",
               feature |-> "", body |-> body]
    /\ resp' = [code |-> code, body |-> responseBody]
    /\ checkLogs' = <<>>
    /\ adminLogs' = logs

Store(t) ==
    /\ licenses' = t.licenses
    /\ license_features' = t.license_features
    /\ license_releases' = t.license_releases

GenerateLicense(r) ==
    /\ Idle
    /\ nextLicenseID < MaxGenerated
    /\ LET prep == GeneratePrepare(r)
       IN  IF prep.code # 0
           THEN /\ Respond("generate", EmptyString, r, prep.code, [error |-> prep.error], <<>>)
                /\ UNCHANGED <<licenses, license_features, license_releases,
                               nextLicenseID, history>>
           ELSE \E key \in GenerateLicenseKey(prep.settings.prefix, prep.settings.length,
                                              prep.settings.separator, prep.charset) :
                  LET license == NewLicense(r, NewUUID(nextLicenseID + 1), key, prep.expiresAt)
                      t == CreateLicense(license)
                  IN  /\ Store(t)
                      /\ nextLicenseID' = IF t.err # "" THEN nextLicenseID
                                          ELSE nextLicenseID + 1
                      /\ IF t.err # ""
                         THEN /\ Respond("generate", key, r, 500,
                                         [error |-> "Failed to save license"], <<>>)
                              /\ UNCHANGED history
                         ELSE /\ Respond("generate", key, r, 201, license,
                                         <<AdminLog("GENERATE_LICENSE", license.ID, license)>>)
                              /\ purgedSince' = purgedSince \ {key}
                              /\ UNCHANGED <<revokedOnce, purgedOnce, revokedSince>>
    /\ UNCHANGED <<catalog, now, environment>>

-----------------------------------------------------------------------------
(* RevokeLicenseHandler: DELETE /admin/keys *)

RevokeLicense(key) ==
    /\ Idle
    /\ IF key = EmptyString
       THEN /\ Respond("revoke", key, NoBody, 400,
                       [error |-> "X-License-Key header is required"], <<>>)
            /\ UNCHANGED <<licenses, license_features, license_releases, history>>
       ELSE LET got == GetLicenseByKey(key)
            IN  IF got.err # ""
                THEN /\ Respond("revoke", key, NoBody,
                                IF got.err = "ErrNotFound" THEN 404 ELSE 500,
                                [error |-> IF got.err = "ErrNotFound"
                                           THEN "License not found"
                                           ELSE "Failed to revoke license"], <<>>)
                     /\ UNCHANGED <<licenses, license_features, license_releases, history>>
                ELSE LET license == [got.license EXCEPT !.Status = "revoked"]
                         t == UpdateLicense(license)
                     IN  /\ Store(t)
                         /\ IF t.err # ""
                            THEN /\ Respond("revoke", key, NoBody, 500,
                                            [error |-> "Failed to revoke license"], <<>>)
                                 /\ UNCHANGED history
                            ELSE /\ Respond("revoke", key, NoBody, 200,
                                            [message |-> "License revoked"],
                                            <<AdminLog("REVOKE_LICENSE", license.ID,
                                                       [key |-> key])>>)
                                 /\ revokedOnce' = revokedOnce \cup {key}
                                 /\ revokedSince' = revokedSince \cup {key}
                                 /\ UNCHANGED <<purgedOnce, purgedSince>>
    /\ UNCHANGED <<catalog, nextLicenseID, now, environment>>

-----------------------------------------------------------------------------
(* DeleteLicenseHandler: DELETE /admin/keys/purge *)

PurgeLicense(key) ==
    /\ Idle
    /\ IF key = EmptyString
       THEN /\ Respond("purge", key, NoBody, 400,
                       [error |-> "X-License-Key header is required"], <<>>)
            /\ UNCHANGED <<licenses, license_features, license_releases, history>>
       ELSE LET got == GetLicenseByKey(key)
            IN  IF got.err # ""
                THEN /\ Respond("purge", key, NoBody,
                                IF got.err = "ErrNotFound" THEN 404 ELSE 500,
                                [error |-> IF got.err = "ErrNotFound"
                                           THEN "License not found"
                                           ELSE "Failed to delete license"], <<>>)
                     /\ UNCHANGED <<licenses, license_features, license_releases, history>>
                ELSE LET t == DeleteLicense(key)
                     IN  /\ Store(t)
                         /\ IF t.err # ""
                            THEN /\ Respond("purge", key, NoBody,
                                            IF t.err = "ErrNotFound" THEN 404 ELSE 500,
                                            [error |-> IF t.err = "ErrNotFound"
                                                       THEN "License not found"
                                                       ELSE "Failed to delete license"], <<>>)
                                 /\ UNCHANGED history
                            ELSE /\ Respond("purge", key, NoBody, 200,
                                            [message |-> "License deleted permanently"],
                                            <<AdminLog("DELETE_LICENSE", got.license.ID,
                                                       [key |-> key])>>)
                                 /\ purgedOnce' = purgedOnce \cup {key}
                                 /\ purgedSince' = purgedSince \cup {key}
                                 /\ revokedSince' = revokedSince \ {key}
                                 /\ UNCHANGED revokedOnce
    /\ UNCHANGED <<catalog, nextLicenseID, now, environment>>

-----------------------------------------------------------------------------
(* UpdateLicenseHandler: PUT /admin/keys *)

\* a faulty update that resets the status when the request names none
ApplyUpdateResetsStatus(existing, r, exp) ==
    [existing EXCEPT
        !.Type = IF r.Type # "" THEN r.Type ELSE @,
        !.ExpiresAt = IF r.ExpiresAt # NoTime THEN r.ExpiresAt
                      ELSE IF ~r.Duration.empty THEN At(exp.time) ELSE @,
        !.AllowedIPs = IF ~r.AllowedIPs.isNil THEN r.AllowedIPs.v ELSE @,
        !.AllowedNetworks = IF ~r.AllowedNetworks.isNil THEN r.AllowedNetworks.v ELSE @,
        !.Features = IF ~r.FeatureCodes.isNil THEN Range(r.FeatureCodes.v) ELSE @,
        !.Releases = IF ~r.ReleaseVersions.isNil THEN Range(r.ReleaseVersions.v) ELSE @,
        !.Status = IF r.Status # "" THEN r.Status ELSE "active"]

\* the fields of the stored license the request overrides
ApplyUpdate(existing, r, exp) ==
    [existing EXCEPT
        !.Type = IF r.Type # "" THEN r.Type ELSE @,
        !.ExpiresAt = IF r.ExpiresAt # NoTime THEN r.ExpiresAt
                      ELSE IF ~r.Duration.empty THEN At(exp.time) ELSE @,
        !.AllowedIPs = IF ~r.AllowedIPs.isNil THEN r.AllowedIPs.v ELSE @,
        !.AllowedNetworks = IF ~r.AllowedNetworks.isNil THEN r.AllowedNetworks.v ELSE @,
        !.Features = IF ~r.FeatureCodes.isNil THEN Range(r.FeatureCodes.v) ELSE @,
        !.Releases = IF ~r.ReleaseVersions.isNil THEN Range(r.ReleaseVersions.v) ELSE @,
        !.Status = IF r.Status # "" THEN r.Status ELSE @]

UpdateLicenseHandler(key, r) ==
    /\ Idle
    /\ IF key = EmptyString
       THEN /\ Respond("update", key, r, 400,
                       [error |-> "X-License-Key header is required"], <<>>)
            /\ UNCHANGED <<licenses, license_features, license_releases, history>>
       ELSE LET got == GetLicenseByKey(key)
                exp == ParseExpirationDuration(r.Duration, now)
            IN  IF got.err # ""
                THEN /\ Respond("update", key, r, 404, [error |-> "License not found"], <<>>)
                     /\ UNCHANGED <<licenses, license_features, license_releases, history>>
                ELSE IF r.ExpiresAt = NoTime /\ ~r.Duration.empty /\ exp.err # ""
                THEN /\ Respond("update", key, r, 400, [error |-> "Invalid duration format"], <<>>)
                     /\ UNCHANGED <<licenses, license_features, license_releases, history>>
                ELSE LET existing == ApplyUpdate(got.license, r, exp)
                         t == UpdateLicense(existing)
                     IN  /\ Store(t)
                         /\ IF t.err # ""
                            THEN /\ Respond("update", key, r, 500,
                                            [error |-> "Failed to update license"], <<>>)
                                 /\ UNCHANGED history
                            ELSE /\ Respond("update", key, r, 200, existing,
                                            <<AdminLog("UPDATE_LICENSE", existing.ID, r)>>)
                                 /\ revokedSince' =
                                        IF r.Status \notin {"", "revoked"}
                                        THEN revokedSince \ {key} ELSE revokedSince
                                 /\ UNCHANGED <<revokedOnce, purgedOnce, purgedSince>>
    /\ UNCHANGED <<catalog, nextLicenseID, now, environment>>

-----------------------------------------------------------------------------
(* GET /check *)

\* a faulty check that clears the allow-list of the license it looks at
CheckLicenseForgets(key, clientIPStr, version, feature) ==
    LET out == CheckLicenseHandler(signingKey, key, clientIPStr, version, feature)
    IN  /\ Idle
        /\ req' = [op |-> "check", key |-> key, ip |-> clientIPStr,
                   version |-> version, feature |-> feature, body |-> NoBody]
        /\ resp' = [code |-> out.code, body |-> out.body]
        /\ checkLogs' = out.logs
        /\ adminLogs' = <<>>
        /\ licenses' = {IF l.key = key THEN [l EXCEPT !.allowed_ips = <<>>] ELSE l :
                           l \in licenses}
        /\ UNCHANGED <<catalog, license_features, license_releases,
                       nextLicenseID, now, environment, history>>

CheckLicense(key, clientIPStr, version, feature) ==
    LET out == CheckLicenseHandler(signingKey, key, clientIPStr, version, feature)
    IN  /\ Idle
        /\ req' = [op |-> "check", key |-> key, ip |-> clientIPStr,
                   version |-> version, feature |-> feature, body |-> NoBody]
        /\ resp' = [code |-> out.code, body |-> out.body]
        /\ checkLogs' = out.logs
        /\ adminLogs' = <<>>
        /\ UNCHANGED <<catalog, licenses, license_features, license_releases,
                       nextLicenseID, now, environment, history>>

\* the wall clock advances between requests
Tick ==
    /\ Idle
    /\ now < MaxTime
    /\ now' = now + 1
    /\ UNCHANGED <<catalog, licenses, license_features, license_releases,
                   nextLicenseID, environment, req, resp, checkLogs, adminLogs, history>>

-----------------------------------------------------------------------------
(* middleware.RateLimitMiddleware.  A rate.Limiter is the number of tokens *)
(* it holds; the clock of the limiters is advanced by Refill.              *)

RateLimitConfig(enabled, requestsPerSecond, burst) ==
    [Enabled |-> enabled, RequestsPerSecond |-> requestsPerSecond, Burst |-> burst]

\* NewRateLimiter: an empty cache and the configured rate and burst
NewRateLimiter(cfg) ==
    [ips |-> <<>>, r |-> cfg.RequestsPerSecond, b |-> cfg.Burst, enabled |-> cfg.Enabled]

\* a faulty wiring that puts one limiter in front of every route
PoolOfShared(route) == "admin"

\* setupRoutes: /check uses checkRateLimiter, the authorized group
\* adminRateLimiter
PoolOf(route) == IF route = "check" THEN "check" ELSE "admin"

\* rl.GetLimiter(ip): the cached limiter, or a new one holding the burst
GetLimiter(rl, ip) == IF ip \in DOMAIN rl.ips THEN rl.ips[ip] ELSE rl.b

\* a faulty Allow that lets a request through on an empty bucket
AllowOnEmpty(tokens) == tokens >= 0

\* limiter.Allow(): a token is there to take
Allow(tokens) == tokens >= 1

NoContext == [pool |-> "", ip |-> JunkText, aborted |-> FALSE]

\* the middleware's decision for a request of a route from an address, and
\* the limiters it leaves
RateLimitMiddleware(route, ip) ==
    LET pool == PoolOf(route)
        rl == limiters[pool]
        tokens == GetLimiter(rl, ip)
        keep(n) == [limiters EXCEPT ![pool].ips =
                        [a \in DOMAIN rl.ips \cup {ip} |-> IF a = ip THEN n ELSE rl.ips[a]]]
    IN  IF ~rl.enabled
        THEN [aborted |-> FALSE, limiters |-> limiters]
        ELSE IF ~Allow(tokens)
        THEN [aborted |-> TRUE, limiters |-> keep(tokens)]
        ELSE [aborted |-> FALSE, limiters |-> keep(tokens - 1)]

\* a request of a route: the middleware answers 429 and aborts, or calls
\* c.Next() and the route's handler runs
Through(route, ip, handler) ==
    LET m == RateLimitMiddleware(route, ip)
    IN  /\ limiters' = m.limiters
        /\ ctx' = [pool |-> PoolOf(route), ip |-> ip, aborted |-> m.aborted]
        /\ UNCHANGED inflight
        /\ IF m.aborted
           THEN /\ Idle
                /\ Respond(route, EmptyString, NoBody, 429,
                           [error |-> "Too many requests"], <<>>)
                /\ UNCHANGED <<catalog, licenses, license_features, license_releases,
                               nextLicenseID, now, environment, history>>
           ELSE handler

\* a request served alone by a server whose rate limiters are disabled: the
\* middleware only calls c.Next() and keeps no bucket
Direct(handler) == handler /\ UNCHANGED <<middleware, inflight>>

\* time passes: every limiter gains its rate, up to its burst
Refill ==
    /\ Idle
    /\ limiters' =
         [p \in DOMAIN limiters |->
            [limiters[p] EXCEPT !.ips =
                [a \in DOMAIN limiters[p].ips |->
                    IF limiters[p].ips[a] + limiters[p].r > limiters[p].b
                    THEN limiters[p].b
                    ELSE limiters[p].ips[a] + limiters[p].r]]]
    /\ limiters' # limiters
    /\ UNCHANGED <<catalog, licenses, license_features, license_releases,
                   nextLicenseID, now, environment, ctx, req, resp, checkLogs,
                   adminLogs, history, inflight>>

\* the expirable LRU drops an entry (TTL reached, or the cache is full); the
\* next request of that address gets a new limiter
Evict(pool, ip) ==
    /\ Idle
    /\ ip \in DOMAIN limiters[pool].ips
    /\ limiters' = [limiters EXCEPT ![pool].ips =
                        [a \in DOMAIN limiters[pool].ips \ {ip} |-> limiters[pool].ips[a]]]
    /\ UNCHANGED <<catalog, licenses, license_features, license_releases,
                   nextLicenseID, now, environment, ctx, req, resp, checkLogs,
                   adminLogs, history, inflight>>

-----------------------------------------------------------------------------
(* DeleteProductHandler, DeleteProductGroupHandler and the foreign keys of *)
(* the schema                                                              *)

\* DELETE FROM products WHERE id = $1, with ON DELETE CASCADE of features,
\* releases and licenses, and of their link rows
DeleteProduct(id) ==
    LET goneLicenses == {l.id : l \in {m \in licenses : m.product_id = id}}
        goneFeatures == {f.id : f \in {g \in features : g.product_id = <<id>>}}
        goneReleases == {r.id : r \in {g \in releases : g.product_id = <<id>>}}
    IN  [err |-> IF dbDown THEN "failed to delete product"
                 ELSE IF id \notin DOMAIN products THEN "product not found" ELSE "",
         products |-> [q \in DOMAIN products \ {id} |-> products[q]],
         features |-> {f \in features : f.id \notin goneFeatures},
         releases |-> {r \in releases : r.id \notin goneReleases},
         licenses |-> {l \in licenses : l.id \notin goneLicenses},
         license_features |-> {lf \in license_features :
                                 lf[1] \notin goneLicenses /\ lf[2] \notin goneFeatures},
         license_releases |-> {lr \in license_releases :
                                 lr[1] \notin goneLicenses /\ lr[2] \notin goneReleases}]

\* DELETE FROM product_groups WHERE id = $1: products keep their rows with
\* product_group_id set to NULL, the group's features and releases cascade
DeleteProductGroup(id) ==
    LET goneFeatures == {f.id : f \in {g \in features : g.product_group_id = <<id>>}}
        goneReleases == {r.id : r \in {g \in releases : g.product_group_id = <<id>>}}
    IN  [err |-> IF dbDown THEN "failed to delete product group"
                 ELSE IF id \notin DOMAIN product_groups THEN "product group not found"
                 ELSE "",
         product_groups |-> [g \in DOMAIN product_groups \ {id} |-> product_groups[g]],
         products |-> [q \in DOMAIN products |->
                          IF products[q].product_group_id = <<id>>
                          THEN [products[q] EXCEPT !.product_group_id = Null]
                          ELSE products[q]],
         features |-> {f \in features : f.id \notin goneFeatures},
         releases |-> {r \in releases : r.id \notin goneReleases},
         license_features |-> {lf \in license_features : lf[2] \notin goneFeatures},
         license_releases |-> {lr \in license_releases : lr[2] \notin goneReleases}]

\* DELETE /admin/products/:id.  GetProduct reports a missing row as "failed
\* to get product: ...", which is not the text the handler tests for
DeleteProductHandler(id) ==
    /\ Idle
    /\ IF dbDown \/ id \notin DOMAIN products
       THEN /\ Respond("delete_product", EmptyString, NoBody, 500,
                       [error |-> "Failed to fetch product for deletion"], <<>>)
            /\ UNCHANGED <<catalog, licenses, license_features, license_releases>>
       ELSE LET t == DeleteProduct(id)
            IN  /\ products' = t.products
                /\ features' = t.features
                /\ releases' = t.releases
                /\ licenses' = t.licenses
                /\ license_features' = t.license_features
                /\ license_releases' = t.license_releases
                /\ UNCHANGED product_groups
                /\ Respond("delete_product", EmptyString, NoBody, 200,
                           [message |-> "Product deleted"],
                           <<[Action |-> "DELETE_PRODUCT", EntityType |-> "products",
                              EntityID |-> id, Details |-> <<>>, CreatedAt |-> now]>>)
    /\ UNCHANGED <<nextLicenseID, now, environment, history>>

\* DELETE /admin/product-groups/:id
DeleteProductGroupHandler(id) ==
    /\ Idle
    /\ IF dbDown \/ id \notin DOMAIN product_groups
       THEN /\ Respond("delete_product_group", EmptyString, NoBody, 500,
                       [error |-> "Failed to fetch product group for deletion"], <<>>)
            /\ UNCHANGED <<catalog, licenses, license_features, license_releases>>
       ELSE LET t == DeleteProductGroup(id)
            IN  /\ product_groups' = t.product_groups
                /\ products' = t.products
                /\ features' = t.features
                /\ releases' = t.releases
                /\ license_features' = t.license_features
                /\ license_releases' = t.license_releases
                /\ UNCHANGED licenses
                /\ Respond("delete_product_group", EmptyString, NoBody, 200,
                           [message |-> "Product group deleted"],
                           <<[Action |-> "DELETE_PRODUCT_GROUP",
                              EntityType |-> "PRODUCT_GROUP",
                              EntityID |-> id, Details |-> <<>>, CreatedAt |-> now]>>)
    /\ UNCHANGED <<nextLicenseID, now, environment, history>>

-----------------------------------------------------------------------------
(* The rows the catalog tables hold, and the requests that are sent *)

ProductRow(prefix, separator, charset, length, group) ==
    [license_prefix |-> prefix, license_separator |-> separator,
     license_charset |-> charset, license_length |-> length,
     product_group_id |-> group,
     auto_allowed_ip |-> FALSE, auto_allowed_ip_limit |-> 0]

GroupRow(prefix, separator, charset, length) ==
    [license_prefix |-> prefix, license_separator |-> separator,
     license_charset |-> charset, license_length |-> length,
     auto_allowed_ip |-> FALSE, auto_allowed_ip_limit |-> 0]

\* p1 stands alone: keys "P-a"; p2 inherits from g1: keys "G_xxxxxxxxxxxx"
SeedProducts ==
    ("p1" :> ProductRow(<<80>>, <<Dash>>, <<97>>, 1, Null)) @@
    ("p2" :> ProductRow(EmptyString, <<Dash>>, EmptyString, 0, <<"g1">>))

SeedGroups == "g1" :> GroupRow(<<71>>, <<95>>, <<120>>, 0)

FeatureRow(id, code, product, group) ==
    [id |-> id, code |-> code, product_id |-> product, product_group_id |-> group]

ReleaseRow(id, version, product, group) ==
    [id |-> id, version |-> version, product_id |-> product, product_group_id |-> group]

SeedFeatures ==
    {FeatureRow("f-sso", "sso", <<"p1">>, Null),
     FeatureRow("f-api", "api", Null, <<"g1">>),
     FeatureRow("f-glob", "glob", Null, Null)}

SeedReleases ==
    {ReleaseRow("r-100", "1.0.0", <<"p1">>, Null),
     ReleaseRow("r-200", "2.0.0", Null, <<"g1">>)}

\* IPv4 texts are 3 bits wide, IPv6 texts 4 bits wide
IPa == IPText(4, <<1, 0, 1>>)
IPb == IPText(4, <<1, 1, 1>>)
IPc == IPText(4, <<1, 0, 0>>)
IP6a == IPText(6, <<0, 0, 0, 1>>)
IP6b == IPText(6, <<1, 0, 1, 1>>)
IPaMasked == CIDRText(4, <<1, 0, 1>>, 1)
Net4 == CIDRText(4, <<1, 1, 0>>, 2)
Net6 == CIDRText(6, <<1, 0, 0, 0>>, 1)

ClientIPs == {IPa, IPb, IPc, IP6a, IP6b, JunkText}
Versions == {"", "2.0.0"}
FeatureCodes == {"", "sso", "other"}

\* no key configured, a usable key, and a key of the wrong size
SigningKeys ==
    {[text |-> "", base64 |-> TRUE, size |-> 0],
     [text |-> "key", base64 |-> TRUE, size |-> PrivateKeySize],
     [text |-> "key", base64 |-> TRUE, size |-> PrivateKeySize - 32]}

GenerateRequests ==
    {generateLicenseRequest("p1", "perpetual", NoTime, NoDuration, <<>>, <<>>, <<>>, <<>>),
     generateLicenseRequest("p1", "timed", At(0), NoDuration, <<"sso", "glob">>,
                            <<"1.0.0">>, <<IPaMasked, IP6a>>, <<Net4, Net6>>),
     generateLicenseRequest("p2", "trial", NoTime, Duration(1, "d"), <<"api">>,
                            <<"2.0.0">>, <<>>, <<>>),
     generateLicenseRequest("p1", "timed", At(0), Duration(1, "d"), <<>>, <<>>, <<>>, <<>>),
     generateLicenseRequest("p1", "timed", NoTime, NotANumber("d"), <<>>, <<>>, <<>>, <<>>),
     generateLicenseRequest("p9", "perpetual", NoTime, NoDuration, <<>>, <<>>, <<>>, <<>>),
     generateLicenseRequest("p1", "", NoTime, NoDuration, <<>>, <<>>, <<>>, <<>>),
     generateLicenseRequest("p1", "perpetual", NoTime, NoDuration, <<>>, <<>>,
                            <<JunkText>>, <<>>)}

UpdateRequests ==
    {updateLicenseRequest("", NoTime, NoDuration, NilList, NilList, NilList, NilList, ""),
     updateLicenseRequest("", NoTime, NoDuration, NilList, NilList, NilList, NilList, "active"),
     updateLicenseRequest("", NoTime, NoDuration, NilList, NilList, NilList, NilList, "expired"),
     updateLicenseRequest("timed", At(0), NoDuration, List(<<"sso">>), List(<<"1.0.0">>),
                          List(<<IPa>>), List(<<>>), ""),
     updateLicenseRequest("", NoTime, Duration(1, "q"), NilList, NilList, NilList, NilList, ""),
     updateLicenseRequest("", NoTime, NoDuration, NilList, NilList, NilList,
                          List(<<JunkText>>), "")}

UnknownKey == <<85>>

\* the X-License-Key headers that are sent: every stored key, and for the
\* requests that find no license every key that has been purged, an unknown
\* key and no key
StoredKeys == {l.key : l \in licenses}
AbsentKeys == (purgedOnce \ StoredKeys) \cup {EmptyString, UnknownKey}
HeaderKeys == StoredKeys \cup AbsentKeys

-----------------------------------------------------------------------------

\* the server starts on a database holding the given rows, with the given
\* rate-limit configuration
InitOf(rows, productRows, groupRows, rateLimitAdmin, rateLimitCheck) ==
    /\ products = productRows
    /\ product_groups = groupRows
    /\ features = SeedFeatures
    /\ releases = SeedReleases
    /\ licenses = rows
    /\ license_features = {}
    /\ license_releases = {}
    /\ nextLicenseID = 0
    /\ now = 0
    /\ signingKey \in SigningKeys
    /\ dbDown = FALSE
    /\ limiters = [p \in {"admin", "check"} |->
                      NewRateLimiter(IF p = "admin" THEN rateLimitAdmin
                                     ELSE rateLimitCheck)]
    /\ ctx = NoContext
    /\ call = NoCall
    /\ threads = NoThreads
    /\ lru = NoLRU
    /\ req = NoRequest
    /\ resp = NoResponse
    /\ checkLogs = <<>>
    /\ adminLogs = <<>>
    /\ revokedOnce = {}
    /\ purgedOnce = {}
    /\ revokedSince = {}
    /\ purgedSince = {}

RateLimitOff == RateLimitConfig(FALSE, 0, 0)

InitWith(rows) == InitOf(rows, SeedProducts, SeedGroups, RateLimitOff, RateLimitOff)

Init == InitWith({})

\* the response has been written and the dispatched log entries handed to
\* their goroutines: the handler returns
Return ==
    /\ ~Idle
    /\ req' = NoRequest
    /\ resp' = NoResponse
    /\ checkLogs' = <<>>
    /\ adminLogs' = <<>>
    /\ UNCHANGED <<catalog, licenses, license_features, license_releases,
                   nextLicenseID, now, environment, history>>

Next ==
    \/ \E r \in GenerateRequests : Direct(GenerateLicense(r))
    \/ \E key \in HeaderKeys : Direct(RevokeLicense(key))
    \/ \E key \in HeaderKeys : Direct(PurgeLicense(key))
    \/ \E key \in HeaderKeys, r \in UpdateRequests : Direct(UpdateLicenseHandler(key, r))
    \/ \E key \in StoredKeys, ip \in ClientIPs, version \in Versions,
          feature \in FeatureCodes : Direct(CheckLicense(key, ip, version, feature))
    \/ \E key \in AbsentKeys, ip \in {IPa, JunkText}, feature \in {"", "sso"} :
          Direct(CheckLicense(key, ip, "", feature))
    \/ Direct(Tick)
    \/ Direct(Return)

Spec == Init /\ [][Next]_vars

-----------------------------------------------------------------------------
(* A database that already holds a license row with auto_allowed_ip set    *)
(* (the column the auto_allowed_ip migration adds), answering checks only. *)

AutoLimit == 2

AutoLicenseRow ==
    [id |-> "license-0", key |-> <<65>>, type |-> "perpetual", status |-> "active",
     product_id |-> "p1", allowed_ips |-> <<>>, allowed_networks |-> <<>>,
     expires_at |-> NoTime,
     auto_allowed_ip |-> TRUE, auto_allowed_ip_limit |-> AutoLimit]

InitAuto == InitWith({AutoLicenseRow})

NextAuto ==
    \/ \E key \in StoredKeys, ip \in ClientIPs, version \in Versions,
          feature \in FeatureCodes : Direct(CheckLicense(key, ip, version, feature))
    \/ \E key \in AbsentKeys, ip \in {IPa, JunkText}, feature \in {"", "sso"} :
          Direct(CheckLicense(key, ip, "", feature))
    \/ Direct(Tick)
    \/ Direct(Return)

SpecAuto == InitAuto /\ [][NextAuto]_vars

\* a license row with the auto-allow columns at their defaults
StoredLicenseRow ==
    [AutoLicenseRow EXCEPT !.auto_allowed_ip = FALSE, !.auto_allowed_ip_limit = 0]

-----------------------------------------------------------------------------
(* Generation for one product over every combination of settings present   *)
(* and absent on the product and on its group, and of the auto-allow       *)
(* columns.                                                                *)

ProductSettings ==
    {[ProductRow(prefix, separator, charset, length, group)
        EXCEPT !.auto_allowed_ip = auto, !.auto_allowed_ip_limit = IF auto THEN 3 ELSE 0] :
        prefix \in {EmptyString, <<80>>},
        separator \in {EmptyString, <<Dash>>, <<58>>},
        charset \in {EmptyString, <<97>>},
        length \in {0, 1},
        group \in {Null, <<"g1">>},
        auto \in BOOLEAN}

GroupSettings ==
    {[GroupRow(prefix, separator, charset, length)
        EXCEPT !.auto_allowed_ip = auto, !.auto_allowed_ip_limit = IF auto THEN 5 ELSE 0] :
        prefix \in {EmptyString, <<71>>},
        separator \in {EmptyString, <<Dash>>, <<95>>},
        charset \in {EmptyString, <<120>>},
        length \in {0, 2},
        auto \in BOOLEAN}

InitResolve ==
    \E product \in ProductSettings, group \in GroupSettings :
        InitOf({}, "p1" :> product, "g1" :> group, RateLimitOff, RateLimitOff)

ResolveRequests ==
    {generateLicenseRequest("p1", "perpetual", NoTime, NoDuration, <<>>, <<>>, <<>>, <<>>)}

NextResolve ==
    \/ \E r \in ResolveRequests : Direct(GenerateLicense(r))
    \/ Direct(Return)

SpecResolve == InitResolve /\ [][NextResolve]_vars

-----------------------------------------------------------------------------
(* service.GenerateLicenseKey called on its own, over prefixes, lengths,    *)
(* separators and alphabets.                                               *)

KeyPrefixes == {<<>>, <<80>>, <<80, 45>>}
KeyLengths == {-1, 0, 1, 2, 3}
KeySeparators == {<<>>, <<58>>, <<58, 58>>}
KeyCharsets == {<<>>, <<97>>, <<97, 98>>, <<120, 45, 122>>}

CallGenerateLicenseKey(prefix, length, separator, charset) ==
    /\ call = NoCall
    /\ \E key \in GenerateLicenseKey(prefix, length, separator, charset) :
          call' = [fn |-> "GenerateLicenseKey", prefix |-> prefix, length |-> length,
                   separator |-> separator, charset |-> charset, out |-> key]
    /\ UNCHANGED <<database, now, environment, middleware, requests, history, threads, lru>>

\* the function has returned to its caller
ReturnCall ==
    /\ call # NoCall
    /\ call' = NoCall
    /\ UNCHANGED <<database, now, environment, middleware, requests, history, threads, lru>>

NextKey ==
    \/ \E prefix \in KeyPrefixes, length \in KeyLengths, separator \in KeySeparators,
          charset \in KeyCharsets :
          CallGenerateLicenseKey(prefix, length, separator, charset)
    \/ ReturnCall

SpecKey == Init /\ [][NextKey]_vars

-----------------------------------------------------------------------------
(* service.ParseCharset called on its own and run statement by statement:  *)
(* the loop over the parts, and for a range token the loop over its bytes. *)

ByteSize == 256     \* a byte counter wraps to 0 after 255

CharsetInputs ==
    {<<>>, <<97>>, <<97, 98>>, <<97, 45, 99>>, <<99, 45, 97>>, <<97, 45, 97>>,
     <<97, 45>>, <<45>>, <<97, 45, 99, 44, 120>>, <<120, 44, 97, 45, 99>>,
     <<97, 45, 99, 44, 97, 45, 98>>, <<97, 45, 98, 44, 99, 45, 97>>,
     <<48, 45, 50, 44, 44, 65>>, <<253, 45, 254>>, <<253, 45, 255>>,
     <<255, 45, 255>>, <<97, 44, 254, 45, 255, 44, 98>>}

\* if input == "" { return defaultCharset, nil }; parts := strings.Split(input, ",")
CallParseCharset(input) ==
    /\ call = NoCall
    /\ call' = IF input = <<>>
               THEN [fn |-> "ParseCharset", input |-> input, parts |-> <<>>, part |-> 1,
                     i |-> 0, builder |-> <<>>, pc |-> "returned", err |-> "",
                     out |-> defaultCharset]
               ELSE [fn |-> "ParseCharset", input |-> input,
                     parts |-> Split(input, <<>>), part |-> 1,
                     i |-> 0, builder |-> <<>>, pc |-> "parts", err |-> "",
                     out |-> <<>>]
    /\ UNCHANGED <<database, now, environment, middleware, requests, history, threads, lru>>

\* builder.WriteByte / builder.WriteString; the builder is followed up to
\* MaxBuilder bytes
Write(builder, bytes) ==
    LET all == builder \o bytes
    IN  IF Len(all) <= MaxBuilder THEN all ELSE SubSeq(all, 1, MaxBuilder)

\* if start > end
RangeRefused(start, end) == start > end

\* one pass of `for _, part := range parts` up to the inner loop, or the
\* return after the last part
PartStep ==
    /\ call.fn = "ParseCharset" /\ call.pc = "parts"
    /\ call' =
         IF call.part > Len(call.parts)
         THEN [call EXCEPT !.pc = "returned", !.out = call.builder]
         ELSE LET part == call.parts[call.part]
              IN  IF Len(part) = 3 /\ part[2] = Dash
                  THEN IF RangeRefused(part[1], part[3])
                       THEN [call EXCEPT !.pc = "returned", !.err = "invalid range"]
                       ELSE [call EXCEPT !.pc = "range", !.i = part[1]]
                  ELSE [call EXCEPT !.builder = Write(call.builder, part),
                                    !.part = call.part + 1]
    /\ UNCHANGED <<database, now, environment, middleware, requests, history, threads, lru>>

\* for i := start; i <= end; i++ { builder.WriteByte(i) } with i a byte
RangeStep ==
    /\ call.fn = "ParseCharset" /\ call.pc = "range"
    /\ call' =
         IF call.i <= call.parts[call.part][3]
         THEN [call EXCEPT !.builder = Write(call.builder, <<call.i>>),
                           !.i = (call.i + 1) % ByteSize]
         ELSE [call EXCEPT !.pc = "parts", !.part = call.part + 1]
    /\ UNCHANGED <<database, now, environment, middleware, requests, history, threads, lru>>

\* the function has returned and its result is dropped
ReturnCharset == call.fn = "ParseCharset" /\ call.pc = "returned" /\ ReturnCall

NextCharset ==
    \/ \E input \in CharsetInputs : CallParseCharset(input)
    \/ PartStep
    \/ RangeStep
    \/ ReturnCharset

\* a call that has started keeps running
SpecCharset ==
    Init /\ [][NextCharset]_vars /\ WF_vars(PartStep) /\ WF_vars(RangeStep)

\* the connection to the database is lost, or is back
Outage ==
    /\ Idle
    /\ dbDown' = ~dbDown
    /\ UNCHANGED <<catalog, licenses, license_features, license_releases,
                   nextLicenseID, now, signingKey, req, resp, checkLogs, adminLogs,
                   history>>

-----------------------------------------------------------------------------
(* service.AsyncLogLicenseCheck and service.AsyncLogAdminAction: every     *)
(* dispatched entry is written by a goroutine of its own, which may fail.  *)

\* go func() { logStore.Create...Log(context.Background(), entry) }()
LogWriter(entry) == [fn |-> "log", entry |-> entry, pc |-> "go", err |-> ""]

\* a request whose handler hands its entries to new goroutines
Logged(handler) ==
    /\ Len(threads) < MaxGoroutines
    /\ handler
    /\ LET entries == checkLogs' \o adminLogs'
       IN  threads' = threads \o [n \in 1..Len(entries) |-> LogWriter(entries[n])]
    /\ UNCHANGED <<middleware, call, lru>>

\* a faulty goroutine that answers the request again when its write fails
LogWriteAnswers(g) ==
    /\ g \in 1..Len(threads) /\ threads[g].pc = "go"
    /\ \E failed \in BOOLEAN :
          /\ dbDown => failed
          /\ threads' = [threads EXCEPT ![g].pc = "done",
                             ![g].err = IF failed THEN "failed to create log" ELSE ""]
          /\ resp' = IF failed /\ ~Idle
                     THEN [code |-> 500, body |-> [error |-> "Failed to write log"]]
                     ELSE resp
    /\ UNCHANGED <<database, now, environment, middleware, req, checkLogs, adminLogs,
                   history, call, lru>>

\* the goroutine runs CreateLicenseCheckLog or CreateAdminLog; an error is
\* only reported to slog
LogWrite(g) ==
    /\ g \in 1..Len(threads) /\ threads[g].pc = "go"
    /\ \E failed \in BOOLEAN :
          /\ dbDown => failed
          /\ threads' = [threads EXCEPT ![g].pc = "done",
                             ![g].err = IF failed THEN "failed to create log" ELSE ""]
    /\ UNCHANGED <<database, now, environment, middleware, requests, history, call, lru>>

Running(t) == t.pc = "go"

\* the handler returns; goroutines that have finished are gone
ReturnLogged ==
    /\ Return
    /\ threads' = SelectSeq(threads, Running)
    /\ UNCHANGED <<middleware, call, lru>>

InitLog == InitWith({StoredLicenseRow})

\* the requests whose entries are followed: a check of a stored and of an
\* unknown key, two generates that succeed and one that is refused
LoggedKeys == StoredKeys \cup {UnknownKey}

LoggedGenerateRequests ==
    {generateLicenseRequest("p1", "perpetual", NoTime, NoDuration, <<>>, <<>>, <<>>, <<>>),
     generateLicenseRequest("p1", "timed", At(0), NoDuration, <<"sso", "glob">>,
                            <<"1.0.0">>, <<IPaMasked, IP6a>>, <<Net4, Net6>>),
     generateLicenseRequest("p9", "perpetual", NoTime, NoDuration, <<>>, <<>>, <<>>, <<>>)}

NextLog ==
    \/ \E key \in LoggedKeys : Logged(CheckLicense(key, IPa, "", ""))
    \/ \E r \in LoggedGenerateRequests : Logged(GenerateLicense(r))
    \/ \E g \in 1..MaxGoroutines : LogWrite(g)
    \/ Direct(Outage)
    \/ ReturnLogged

SpecLog == InitLog /\ [][NextLog]_vars

-----------------------------------------------------------------------------
(* Requests served concurrently.  gin runs every request in a goroutine of *)
(* its own; a handler's store calls are separate statements (UpdateLicense *)
(* is one transaction), and other requests run between them.  A goroutine  *)
(* is [fn, key, ip, body, pc, license, code, out].                         *)

Goroutine(fn, key, ip, body) ==
    [fn |-> fn, key |-> key, ip |-> ip, body |-> body, pc |-> "read",
     license |-> NoLicense, code |-> 0, out |-> NoBody]

Answer(t, code, out) == [t EXCEPT !.pc = "done", !.code = code, !.out = out]

\* the server accepts a request
Accept(t) ==
    /\ Len(threads) < MaxConcurrent
    /\ threads' = Append(threads, t)
    /\ UNCHANGED <<database, now, environment, middleware, requests, history, call, lru>>

\* licenseStore.GetLicenseByKey in CheckLicenseHandler, RevokeLicenseHandler
\* and UpdateLicenseHandler, and the handler's answer when it fails
ReadStep(g) ==
    /\ g \in 1..Len(threads) /\ threads[g].pc = "read"
    /\ LET t == threads[g]
           got == GetLicenseByKey(t.key)
       IN  threads' = [threads EXCEPT ![g] =
               IF got.err = ""
               THEN [t EXCEPT !.license = got.license,
                              !.pc = IF t.fn = "check" THEN "respond" ELSE "write"]
               ELSE IF t.fn = "revoke" /\ got.err # "ErrNotFound"
               THEN Answer(t, 500, [error |-> "Failed to revoke license"])
               ELSE Answer(t, 404, [error |-> "License not found"])]
    /\ UNCHANGED <<database, now, environment, middleware, requests, history, call, lru>>

\* a faulty check that stores the caller's address as the whole allow-list
RespondStepStores(g) ==
    /\ g \in 1..Len(threads) /\ threads[g].pc = "respond"
    /\ LET t == threads[g]
           t2 == UpdateLicense([t.license EXCEPT !.AllowedIPs = <<t.ip>>])
       IN  /\ Store(t2)
           /\ threads' = [threads EXCEPT ![g] = Answer(t, 200, [valid |-> TRUE])]
    /\ UNCHANGED <<catalog, nextLicenseID, now, environment, middleware, requests,
                   history, call, lru>>

\* the rest of CheckLicenseHandler: the pipeline over the license read, and
\* the response
RespondStep(g) ==
    /\ g \in 1..Len(threads) /\ threads[g].pc = "respond"
    /\ LET t == threads[g]
           outcome == Validate(t.license, t.ip, "", "", now)
           body == WithToken(ResponseBody(outcome, t.license), signingKey,
                             t.key, t.license, outcome.valid)
       IN  threads' = [threads EXCEPT ![g] = Answer(t, 200, body)]
    /\ UNCHANGED <<database, now, environment, middleware, requests, history, call, lru>>

\* the rest of RevokeLicenseHandler and of UpdateLicenseHandler: the object
\* that was read is changed and written back with UpdateLicense
WriteStep(g) ==
    /\ g \in 1..Len(threads) /\ threads[g].pc = "write"
    /\ LET t == threads[g]
           exp == ParseExpirationDuration(t.body.Duration, now)
       IN  IF t.fn = "revoke"
           THEN LET license == [t.license EXCEPT !.Status = "revoked"]
                    t2 == UpdateLicense(license)
                IN  /\ Store(t2)
                    /\ IF t2.err # ""
                       THEN /\ threads' = [threads EXCEPT ![g] =
                                   Answer(t, 500, [error |-> "Failed to revoke license"])]
                            /\ UNCHANGED history
                       ELSE /\ threads' = [threads EXCEPT ![g] =
                                   Answer(t, 200, [message |-> "License revoked"])]
                            /\ revokedOnce' = revokedOnce \cup {t.key}
                            /\ revokedSince' = revokedSince \cup {t.key}
                            /\ UNCHANGED <<purgedOnce, purgedSince>>
           ELSE IF t.body.ExpiresAt = NoTime /\ ~t.body.Duration.empty /\ exp.err # ""
           THEN /\ threads' = [threads EXCEPT ![g] =
                       Answer(t, 400, [error |-> "Invalid duration format"])]
                /\ UNCHANGED <<licenses, license_features, license_releases, history>>
           ELSE LET existing == ApplyUpdate(t.license, t.body, exp)
                    t2 == UpdateLicense(existing)
                IN  /\ Store(t2)
                    /\ IF t2.err # ""
                       THEN /\ threads' = [threads EXCEPT ![g] =
                                   Answer(t, 500, [error |-> "Failed to update license"])]
                            /\ UNCHANGED history
                       ELSE /\ threads' = [threads EXCEPT ![g] = Answer(t, 200, existing)]
                            /\ revokedSince' =
                                   IF t.body.Status \notin {"", "revoked"}
                                   THEN revokedSince \ {t.key} ELSE revokedSince
                            /\ UNCHANGED <<revokedOnce, purgedOnce, purgedSince>>
    /\ UNCHANGED <<catalog, nextLicenseID, now, environment, middleware, requests, call, lru>>

\* the response has been sent and the goroutine ends
Finish(g) ==
    /\ g \in 1..Len(threads) /\ threads[g].pc = "done"
    /\ threads' = SubSeq(threads, 1, g - 1) \o SubSeq(threads, g + 1, Len(threads))
    /\ UNCHANGED <<database, now, environment, middleware, requests, history, call, lru>>

\* a license with auto_allowed_ip set that already allows one address
GrowingLicenseRow == [AutoLicenseRow EXCEPT !.allowed_ips = InetArrayIn(<<IPc>>).val]

InitChecks == InitWith({GrowingLicenseRow})

\* checks of one license arrive from several addresses
NextChecks ==
    \/ \E key \in StoredKeys \cup {UnknownKey}, ip \in {IPa, IPb, IPc, JunkText} :
          Accept(Goroutine("check", key, ip, NoBody))
    \/ \E g \in 1..MaxConcurrent : ReadStep(g)
    \/ \E g \in 1..MaxConcurrent : RespondStep(g)
    \/ \E g \in 1..MaxConcurrent : Finish(g)

SpecChecks == InitChecks /\ [][NextChecks]_vars

\* update requests that leave the status field out
UpdatesWithoutStatus == {r \in UpdateRequests : r.Status = ""}

InitRace == InitWith({StoredLicenseRow})

\* revokes and status-free updates of one license arrive
NextRace ==
    \/ \E key \in StoredKeys \cup {UnknownKey} :
          Accept(Goroutine("revoke", key, JunkText, NoBody))
    \/ \E key \in StoredKeys \cup {UnknownKey}, r \in UpdatesWithoutStatus :
          Accept(Goroutine("update", key, JunkText, r))
    \/ \E g \in 1..MaxConcurrent : ReadStep(g)
    \/ \E g \in 1..MaxConcurrent : WriteStep(g)
    \/ \E g \in 1..MaxConcurrent : Finish(g)

SpecRace == InitRace /\ [][NextRace]_vars

-----------------------------------------------------------------------------
(* Checks against a database that goes down and comes back.                *)

InitFault == InitWith({StoredLicenseRow})

NextFault ==
    \/ \E key \in HeaderKeys, ip \in ClientIPs, feature \in FeatureCodes :
          Direct(CheckLicense(key, ip, "", feature))
    \/ Direct(Outage)
    \/ Direct(Tick)
    \/ Direct(Return)

SpecFault == InitFault /\ [][NextFault]_vars

-----------------------------------------------------------------------------
(* Products and product groups are deleted while licenses of theirs exist. *)

CatalogLicenseRows ==
    {StoredLicenseRow,
     [StoredLicenseRow EXCEPT !.id = "license-00", !.key = <<66>>, !.product_id = "p2"]}

InitCatalog == InitWith(CatalogLicenseRows)

NextCatalog ==
    \/ \E id \in {"p1", "p2", "p9"} : Direct(DeleteProductHandler(id))
    \/ \E id \in {"g1", "g9"} : Direct(DeleteProductGroupHandler(id))
    \/ \E key \in HeaderKeys : Direct(RevokeLicense(key))
    \/ \E key \in HeaderKeys : Direct(PurgeLicense(key))
    \/ \E key \in HeaderKeys, r \in UpdateRequests : Direct(UpdateLicenseHandler(key, r))
    \/ \E key \in HeaderKeys, ip \in {IPa, JunkText} : Direct(CheckLicense(key, ip, "", ""))
    \/ Direct(Return)

SpecCatalog == InitCatalog /\ [][NextCatalog]_vars

-----------------------------------------------------------------------------
(* The server with both rate limiters enabled, on a database that holds    *)
(* one license: checks and revokes arrive from two addresses.              *)

AdminBurst == 1
CheckBurst == 2

RateLimitAdmin == RateLimitConfig(TRUE, 1, AdminBurst)
RateLimitCheck == RateLimitConfig(TRUE, 1, CheckBurst)

Callers == {IPa, IPb}

InitLimiter ==
    InitOf({StoredLicenseRow}, SeedProducts, SeedGroups, RateLimitAdmin, RateLimitCheck)

\* the handler has returned: the request's context is dropped, the limiters
\* live on
ReturnLimited == Return /\ ctx' = NoContext /\ UNCHANGED <<limiters, inflight>>

NextLimiter ==
    \/ \E ip \in Callers, key \in StoredKeys \cup {UnknownKey} :
          Through("check", ip, CheckLicense(key, ip, "", ""))
    \/ \E ip \in Callers, key \in StoredKeys :
          Through("revoke", ip, RevokeLicense(key))
    \/ Refill
    \/ \E pool \in DOMAIN limiters, ip \in Callers : Evict(pool, ip)
    \/ ReturnLimited

SpecLimiter == InitLimiter /\ [][NextLimiter]_vars

-----------------------------------------------------------------------------
(* RateLimitMiddleware of the admin routes statement by statement, with    *)
(* requests served concurrently and no refill.  lru.cache is the LRU (an   *)
(* address -> a *rate.Limiter), lru.objects the limiters by identity with  *)
(* the tokens each holds.  A goroutine is [fn, ip, pc, limiter, code].     *)

Limited(ip) == [fn |-> "limit", ip |-> ip, pc |-> "get", limiter |-> 0, code |-> 0]

\* the limiters a goroutine holds or the cache refers to
Referenced(ts, cache) ==
    {ts[g].limiter : g \in 1..Len(ts)} \cup {cache[a] : a \in DOMAIN cache}

\* a request reaches the middleware: ip := c.ClientIP()
AcceptLimited(ip) ==
    /\ Len(threads) < MaxConcurrent
    /\ lru.accepted < MaxAccepted
    /\ threads' = Append(threads, Limited(ip))
    /\ lru' = [lru EXCEPT !.accepted = @ + 1]
    /\ UNCHANGED <<database, now, environment, middleware, requests, history, call>>

\* if limiter, ok := rl.ips.Get(ip); ok { return limiter }
GetStep(g) ==
    /\ g \in 1..Len(threads) /\ threads[g].pc = "get"
    /\ LET t == threads[g]
       IN  threads' = [threads EXCEPT ![g] =
               IF t.ip \in DOMAIN lru.cache
               THEN [t EXCEPT !.limiter = lru.cache[t.ip], !.pc = "allow"]
               ELSE [t EXCEPT !.pc = "add"]]
    /\ UNCHANGED <<database, now, environment, middleware, requests, history, call, lru>>

\* limiter := rate.NewLimiter(rl.r, rl.b); rl.ips.Add(ip, limiter): Add
\* replaces the value of a key that is present
AddStep(g) ==
    /\ g \in 1..Len(threads) /\ threads[g].pc = "add"
    /\ LET ip == threads[g].ip
           id == CHOOSE n \in 1..(Len(threads) + Cardinality(DOMAIN lru.cache) + 1) :
                    n \notin DOMAIN lru.objects
       IN  /\ threads' = [threads EXCEPT ![g].limiter = id, ![g].pc = "allow"]
           /\ lru' = [lru EXCEPT
                  !.objects = (id :> limiters["admin"].b) @@ @,
                  !.cache = (ip :> id) @@ @]
    /\ UNCHANGED <<database, now, environment, middleware, requests, history, call>>

\* if !limiter.Allow() { 429; c.Abort() } else c.Next()
AllowStep(g) ==
    /\ g \in 1..Len(threads) /\ threads[g].pc = "allow"
    /\ LET t == threads[g]
           tokens == lru.objects[t.limiter]
           before == IF t.ip \in DOMAIN lru.admitted THEN lru.admitted[t.ip] ELSE 0
       IN  IF Allow(tokens)
           THEN /\ threads' = [threads EXCEPT ![g].pc = "done", ![g].code = 200]
                /\ lru' = [lru EXCEPT !.objects[t.limiter] = tokens - 1,
                                      !.admitted = (t.ip :> before + 1) @@ @]
           ELSE /\ threads' = [threads EXCEPT ![g].pc = "done", ![g].code = 429]
                /\ UNCHANGED lru
    /\ UNCHANGED <<database, now, environment, middleware, requests, history, call>>

\* the request has been answered; a limiter nothing refers to any more is
\* garbage
FinishLimited(g) ==
    /\ g \in 1..Len(threads) /\ threads[g].pc = "done"
    /\ threads' = SubSeq(threads, 1, g - 1) \o SubSeq(threads, g + 1, Len(threads))
    /\ lru' = [lru EXCEPT !.objects =
                  [id \in DOMAIN @ \cap Referenced(threads', lru.cache) |-> @[id]]]
    /\ UNCHANGED <<database, now, environment, middleware, requests, history, call>>

NextBucket ==
    \/ \E ip \in Callers : AcceptLimited(ip)
    \/ \E g \in 1..MaxConcurrent : GetStep(g)
    \/ \E g \in 1..MaxConcurrent : AddStep(g)
    \/ \E g \in 1..MaxConcurrent : AllowStep(g)
    \/ \E g \in 1..MaxConcurrent : FinishLimited(g)

SpecBucket == InitLimiter /\ [][NextBucket]_vars

-----------------------------------------------------------------------------
(* Properties.  They are stated over the request that has just been        *)
(* answered: req and resp, the entries it dispatched, and the tables as    *)
(* the request left them.                                                  *)

CheckAnswered == req.op = "check"
CheckOK == CheckAnswered /\ resp.code = 200

\* the stored row the answered request names, and the license read from it
RowOf(key) == CHOOSE l \in licenses : l.key = key
Checked == ScanLicense(RowOf(req.key))

HasReason == "reason" \in DOMAIN resp.body
ReasonIs(text) == HasReason /\ resp.body.reason = text
ValidIs(b) == "valid" \in DOMAIN resp.body /\ resp.body.valid = b

\* what each step of the pipeline decides, said directly
IsRevoked(l) == l.Status = "revoked"
IsExpired(l) == l.ExpiresAt # NoTime /\ l.ExpiresAt[1] < now
IsRestricted(l) == l.AllowedIPs # <<>> \/ l.AllowedNetworks # <<>>
IsAddress(t) == t.form = "addr"
AddressOf(t) == <<t.fam, t.bits>>
InBlock(t, block) ==
    /\ t.fam = block.fam
    /\ SubSeq(t.bits, 1, block.len) = SubSeq(block.bits, 1, block.len)
OnAllowList(l, t) ==
    \/ \E i \in 1..Len(l.AllowedIPs) : AddressOf(l.AllowedIPs[i]) = AddressOf(t)
    \/ \E j \in 1..Len(l.AllowedNetworks) : InBlock(t, l.AllowedNetworks[j])
IPRejected(l, t) == IsRestricted(l) /\ ~(IsAddress(t) /\ OnAllowList(l, t))
VersionRejected(l, v) == v # "" /\ l.Releases # {} /\ v \notin l.Releases
FeatureRejected(l, f) == f # "" /\ f \notin l.Features

FirstFailure(l, t, v, f) ==
    IF IsRevoked(l) THEN "License is revoked"
    ELSE IF IsExpired(l) THEN "License has expired"
    ELSE IF IPRejected(l, t)
    THEN IF IsAddress(t) THEN "IP address not allowed"
         ELSE "Unable to determine client IP for validation"
    ELSE IF VersionRejected(l, v) THEN "License not valid for version " \o v
    ELSE IF FeatureRejected(l, f) THEN "Feature not enabled: " \o f
    ELSE ""

C2_AutoAllowGrowth ==
    (/\ CheckOK
     /\ RowOf(req.key).auto_allowed_ip
     /\ RowOf(req.key).auto_allowed_ip_limit = AutoLimit
     /\ IsAddress(req.ip) /\ req.version = "" /\ req.feature = ""
     /\ ~IsRevoked(Checked) /\ ~IsExpired(Checked))
    => /\ ValidIs(TRUE) <=>
              \E i \in 1..Len(Checked.AllowedIPs) :
                  AddressOf(Checked.AllowedIPs[i]) = AddressOf(req.ip)
       /\ Len(Checked.AllowedIPs) <= AutoLimit

C4_AllowListMatch ==
    (/\ CheckOK /\ IsRestricted(Checked) /\ IsAddress(req.ip)
     /\ ~IsRevoked(Checked) /\ ~IsExpired(Checked))
    => IF OnAllowList(Checked, req.ip)
       THEN ~ReasonIs("IP address not allowed")
            /\ ~ReasonIs("Unable to determine client IP for validation")
            /\ (req.version = "" /\ req.feature = "" => ValidIs(TRUE))
       ELSE ValidIs(FALSE) /\ ReasonIs("IP address not allowed")

\* an IPv6 caller that is no literal of AllowedIPs passes through a block
C4_Witness ==
    /\ CheckOK /\ IsRestricted(Checked) /\ req.ip.fam = 6
    /\ \A i \in 1..Len(Checked.AllowedIPs) :
           AddressOf(Checked.AllowedIPs[i]) # AddressOf(req.ip)
    /\ ValidIs(TRUE)

\* C5: expiry is decided by ExpiresAt and the clock alone: a license that
\* is not revoked and whose ExpiresAt is before now is answered "License has
\* expired", and a license whose status is expired but whose ExpiresAt is
\* absent or not before now is not.
C5_ExpiryComputedLive ==
    CheckOK =>
        /\ (~IsRevoked(Checked) /\ IsExpired(Checked))
           => ValidIs(FALSE) /\ ReasonIs("License has expired")
        /\ (Checked.Status = "expired" /\ ~IsExpired(Checked))
           => ~ReasonIs("License has expired")

\* a license whose stored status is expired is answered valid
C5_Witness ==
    /\ CheckOK /\ Checked.Status = "expired" /\ ~IsExpired(Checked)
    /\ ValidIs(TRUE)

\* C6: for a license that passes every other step, a check with a feature
\* is valid exactly when Features holds that code; if not, the reason is
\* "Feature not enabled: " and the code.
C6_FeatureGate ==
    (/\ CheckOK /\ req.feature # ""
     /\ ~IsRevoked(Checked) /\ ~IsExpired(Checked)
     /\ ~IPRejected(Checked, req.ip) /\ ~VersionRejected(Checked, req.version))
    => IF req.feature \in Checked.Features
       THEN ValidIs(TRUE) /\ ~HasReason
       ELSE ValidIs(FALSE) /\ ReasonIs("Feature not enabled: " \o req.feature)

\* a license without features rejects a feature query
C6_Witness ==
    /\ CheckOK /\ req.feature # "" /\ Checked.Features = {}
    /\ ReasonIs("Feature not enabled: " \o req.feature)

\* the release versions the license_releases rows give a license
LinkedReleases(l) ==
    {r.version : r \in {g \in releases : <<l.id, g.id>> \in license_releases}}

\* C7: for a license that passes every other step, a check with a version
\* is valid exactly when the license has no releases or has that version;
\* if not, the reason is "License not valid for version " and the version.
C7_VersionGate ==
    (/\ CheckOK /\ req.version # "" /\ req.feature = ""
     /\ ~IsRevoked(Checked) /\ ~IsExpired(Checked)
     /\ ~IPRejected(Checked, req.ip))
    => LET have == LinkedReleases(RowOf(req.key))
       IN  IF have = {} \/ req.version \in have
           THEN ValidIs(TRUE) /\ ~HasReason
           ELSE ValidIs(FALSE)
                /\ ReasonIs("License not valid for version " \o req.version)

\* C8: every check dispatches exactly one audit entry, with status 404 when
\* the key resolves to no license and 200 otherwise.
C8_OneAuditEntry ==
    CheckAnswered =>
        /\ Len(checkLogs) = 1
        /\ checkLogs[1].StatusCode = IF req.key \in StoredKeys THEN 200 ELSE 404

\* signing succeeds exactly for well-formed key material
WellFormed(k) == k.text # "" /\ k.base64 /\ k.size = PrivateKeySize
WithoutToken(body) == [f \in DOMAIN body \ {"token"} |-> body[f]]

\* C9: the token is present exactly when a signing key is configured and
\* signing succeeded, and whether or not signing failed the status, valid
\* and reason are those the handler gives with no signing key.
C9_SigningDegrades ==
    CheckAnswered =>
        LET unsigned == CheckLicenseHandler([text |-> "", base64 |-> TRUE, size |-> 0],
                                            req.key, req.ip, req.version, req.feature)
        IN  /\ "token" \in DOMAIN resp.body <=> (resp.code = 200 /\ WellFormed(signingKey))
            /\ resp.code = unsigned.code
            /\ WithoutToken(resp.body) = unsigned.body

\* a malformed key is configured and an invalid license is reported as such
C9_Witness ==
    /\ CheckOK
    /\ signingKey.text # "" /\ ~WellFormed(signingKey)
    /\ ValidIs(FALSE) /\ HasReason
    /\ "token" \notin DOMAIN resp.body

\* C10: a 200 check response carries a reason exactly when valid is false.
C10_ReasonIffInvalid ==
    CheckOK => (HasReason <=> ValidIs(FALSE))

\* an invalid 200 response with its reason
C10_Witness ==
    CheckOK /\ ValidIs(FALSE) /\ HasReason /\ resp.body.reason # ""

\* a request has just been answered by this step
Answered == Idle /\ ~Idle'

\* the tokens an address has in a pool: those of its limiter, or the burst a
\* new limiter would start with
Bucket(ls, pool, ip) ==
    IF ip \in DOMAIN ls[pool].ips THEN ls[pool].ips[ip] ELSE ls[pool].b

\* C11: with the limiter enabled a request reaches its handler only if the
\* bucket of its own client IP held a token, which it takes; a request that
\* finds none is answered 429 and nothing downstream happens: no table
\* changes and no audit entry is dispatched.
C11_RejectedBeforeHandlers ==
    [][Answered =>
        LET had == Bucket(limiters, ctx'.pool, ctx'.ip)
        IN  /\ ctx'.aborted <=> had = 0
            /\ ctx'.aborted =>
                   /\ resp'.code = 429
                   /\ checkLogs' = <<>> /\ adminLogs' = <<>>
                   /\ UNCHANGED <<catalog, licenses, license_features, license_releases>>
                   /\ Bucket(limiters', ctx'.pool, ctx'.ip) = 0
            /\ ~ctx'.aborted =>
                   /\ resp'.code # 429
                   /\ Bucket(limiters', ctx'.pool, ctx'.ip) = had - 1]_vars

\* a check is turned away at the limiter
C11_Witness ==
    /\ req.op = "check" /\ ctx.aborted /\ resp.code = 429
    /\ checkLogs = <<>>
    /\ Bucket(limiters, "check", ctx.ip) = 0

\* C12: the two pools share nothing: a request of one pool leaves every
\* limiter of the other pool as it was, and whether a request is admitted is
\* decided by the bucket its address has in the pool of its own route.
C12_PoolsIndependent ==
    [][Answered =>
        LET own == IF req'.op = "check" THEN "check" ELSE "admin"
            other == IF req'.op = "check" THEN "admin" ELSE "check"
        IN  /\ limiters'[other] = limiters[other]
            /\ ctx'.aborted <=> Bucket(limiters, own, ctx'.ip) = 0]_vars

\* a check is admitted from an address whose admin bucket is exhausted
C12_Witness ==
    /\ req.op = "check" /\ ~ctx.aborted /\ resp.code # 429
    /\ ctx.ip \in DOMAIN limiters["admin"].ips
    /\ limiters["admin"].ips[ctx.ip] = 0

GenerateOK == req.op = "generate" /\ resp.code = 201

\* the product a generate request names and the group that product is in
ProductOf(r) == products[r.ProductID]
InGroup(product) == product.product_group_id # Null
GroupOf(product) == product_groups[product.product_group_id[1]]

\* product value, else group value, else default, field by field
Pick(productSet, productValue, product, groupSet, groupValue, default) ==
    IF productSet THEN productValue
    ELSE IF InGroup(product) /\ groupSet THEN groupValue
    ELSE default

ExpectedPrefix(product) ==
    Pick(product.license_prefix # <<>>, product.license_prefix, product,
         InGroup(product) /\ GroupOf(product).license_prefix # <<>>,
         IF InGroup(product) THEN GroupOf(product).license_prefix ELSE <<>>,
         <<76, 73, 67, 69, 78, 83, 69>>)

ExpectedSeparator(product) ==
    Pick(product.license_separator \notin {<<>>, <<Dash>>}, product.license_separator,
         product,
         InGroup(product) /\ GroupOf(product).license_separator # <<>>,
         IF InGroup(product) THEN GroupOf(product).license_separator ELSE <<>>,
         <<Dash>>)

ExpectedAlphabet(product) ==
    Pick(product.license_charset # <<>>, Range(product.license_charset), product,
         InGroup(product) /\ GroupOf(product).license_charset # <<>>,
         IF InGroup(product) THEN Range(GroupOf(product).license_charset) ELSE {},
         Range(defaultCharset))

ExpectedLength(product) ==
    Pick(product.license_length > 0, product.license_length, product,
         InGroup(product) /\ GroupOf(product).license_length > 0,
         IF InGroup(product) THEN GroupOf(product).license_length ELSE 0,
         12)

\* C13: a generated key is the resolved prefix, the resolved separator and
\* a string of the resolved length over the resolved alphabet, each resolved
\* on its own: the product's value when set (separator: set and not "-"),
\* else the group's when set, else "LICENSE", "-", the default alphabet, 12.
C13_SettingsResolved ==
    (GenerateOK /\ req.body.Prefix = <<>> /\ req.body.Length = 0) =>
        LET product == ProductOf(req.body)
            head == ExpectedPrefix(product) \o ExpectedSeparator(product)
            key == resp.body.Key
        IN  /\ Len(key) = Len(head) + ExpectedLength(product)
            /\ SubSeq(key, 1, Len(head)) = head
            /\ \A i \in Len(head) + 1 .. Len(key) : key[i] \in ExpectedAlphabet(product)

\* the product has its own prefix and length, and takes separator and
\* charset from its group
C13_Witness ==
    /\ GenerateOK
    /\ LET product == ProductOf(req.body)
       IN  /\ InGroup(product)
           /\ product.license_prefix = <<80>> /\ product.license_length = 1
           /\ product.license_separator = <<Dash>> /\ product.license_charset = <<>>
           /\ GroupOf(product).license_prefix = <<71>>
           /\ GroupOf(product).license_length = 2
           /\ resp.body.Key = <<80, 95, 120>>

\* C14: the auto-allow pair stored on a generated license is the product's
\* when the product's auto_allowed_ip is true, otherwise the group's,
\* otherwise disabled with limit 0 (the request of the model supplies none).
C14_AutoAllowInherited ==
    GenerateOK =>
        LET product == ProductOf(req.body)
            row == RowOf(resp.body.Key)
            from == IF product.auto_allowed_ip THEN product
                    ELSE IF InGroup(product) THEN GroupOf(product)
                    ELSE [auto_allowed_ip |-> FALSE, auto_allowed_ip_limit |-> 0]
        IN  /\ row.auto_allowed_ip = from.auto_allowed_ip
            /\ row.auto_allowed_ip_limit = from.auto_allowed_ip_limit

BothExpiries(r) == r.ExpiresAt # NoTime /\ ~r.Duration.empty

\* C15: a generate request that sets both expires_at and duration is
\* answered 400 and leaves the license tables as they were.
C15_BothExpiriesRejected ==
    [][(Answered /\ req'.op = "generate" /\ BothExpiries(req'.body)) =>
        /\ resp'.code = 400
        /\ UNCHANGED <<licenses, license_features, license_releases>>]_vars

\* such a request is answered with the handler's message
C15_Witness ==
    /\ req.op = "generate" /\ BothExpiries(req.body)
    /\ req.body.ProductID \in DOMAIN products /\ req.body.Type # ""
    /\ resp.code = 400
    /\ resp.body.error = "Cannot specify both expires_at and duration"

\* an entry that is neither an address nor a block
Unparseable(texts) == \E i \in 1..Len(texts) : texts[i].form = "junk"

\* C16: a generate request with an unparseable entry in allowed_ips or
\* allowed_networks is answered 400, and no license is persisted for it.
C16_BadAddressRejected ==
    (/\ req.op = "generate"
     /\ Unparseable(req.body.AllowedIPs) \/ Unparseable(req.body.AllowedNetworks))
    => /\ resp.code = 400
       /\ req.key \notin StoredKeys

\* C17: a check that meets an infrastructure failure of the store is
\* answered 500; 404 is answered only when the license is absent.
C17_StoreFailureIs500 ==
    (CheckAnswered /\ req.key # <<>>) =>
        /\ dbDown => resp.code = 500
        /\ resp.code = 404 => (~dbDown /\ req.key \notin StoredKeys)

\* C18: a license row is gone only if its key has been purged.
C18_OnlyPurgeRemoves ==
    \A row \in CatalogLicenseRows :
        row.key \in StoredKeys \/ row.key \in purgedOnce

IsGlobal(row) == row.product_id = Null /\ row.product_group_id = Null

\* the codes and versions a license is linked to, read from the link tables
LinkedFeatures(id) ==
    {f.code : f \in {g \in features : <<id, g.id>> \in license_features}}

\* C19: after a license is generated or updated with the code of a global
\* feature, or the version of a global release, the persisted license
\* carries it.
C19_GlobalAssignable ==
    LET done == \/ GenerateOK
                \/ req.op = "update" /\ resp.code = 200
        codes == IF req.op = "generate" THEN Range(req.body.FeatureCodes)
                 ELSE IF req.body.FeatureCodes.isNil THEN {}
                 ELSE Range(req.body.FeatureCodes.v)
        versions == IF req.op = "generate" THEN Range(req.body.ReleaseVersions)
                    ELSE IF req.body.ReleaseVersions.isNil THEN {}
                    ELSE Range(req.body.ReleaseVersions.v)
    IN  done =>
          LET row == RowOf(req.key)
          IN  /\ \A f \in features :
                    (IsGlobal(f) /\ f.code \in codes) => f.code \in LinkedFeatures(row.id)
              /\ \A r \in releases :
                    (IsGlobal(r) /\ r.version \in versions)
                        => r.version \in LinkedReleases(row)

\* C20: the license in a 201 generate response is the stored one: same key,
\* type, expiry, status, allow-list entries, features and releases.
C20_EchoIsPersisted ==
    GenerateOK =>
        LET row == RowOf(resp.body.Key)
            echo == resp.body
        IN  /\ echo.Type = row.type /\ echo.ExpiresAt = row.expires_at
            /\ echo.Status = row.status
            /\ Len(echo.AllowedIPs) = Len(row.allowed_ips)
            /\ \A i \in 1..Len(echo.AllowedIPs) :
                   AddressOf(echo.AllowedIPs[i])
                       = <<row.allowed_ips[i].fam, row.allowed_ips[i].bits>>
            /\ Len(echo.AllowedNetworks) = Len(row.allowed_networks)
            /\ echo.Features = LinkedFeatures(row.id)
            /\ echo.Releases = LinkedReleases(row)

KeyAnswered == call.fn = "GenerateLicenseKey"

\* what comes before the random part: the prefix and the separator ("-"
\* when none is given), or nothing without a prefix
KeyHead(c) ==
    IF c.prefix = <<>> THEN <<>>
    ELSE c.prefix \o (IF c.separator = <<>> THEN <<45>> ELSE c.separator)

\* C21: for a positive length and a non-empty alphabet the key is the
\* prefix and separator (when there is a prefix) followed by a random part
\* of exactly `length` characters, each a member of the alphabet.
C21_KeyShape ==
    (KeyAnswered /\ call.length > 0 /\ call.charset # <<>>) =>
        LET head == KeyHead(call)
        IN  /\ Len(call.out) = Len(head) + call.length
            /\ SubSeq(call.out, 1, Len(head)) = head
            /\ \A i \in (Len(head) + 1)..Len(call.out) :
                   call.out[i] \in Range(call.charset)

\* a key with a prefix whose three random characters are not all the same
C21_Witness ==
    /\ KeyAnswered /\ call.length = 3 /\ call.prefix # <<>>
    /\ Cardinality(Range(call.charset)) > 1
    /\ call.out[Len(call.out)] # call.out[Len(call.out) - 1]

Parsing == call.fn = "ParseCharset" /\ call.input # <<>>
Parsed == Parsing /\ call.pc = "returned"

IsRangeToken(part) == Len(part) = 3 /\ part[2] = 45
Span(x, y) == [n \in 1..(y - x + 1) |-> x + n - 1]

\* the alphabet a list of well-ordered tokens stands for
RECURSIVE Alphabet(_)
Alphabet(parts) ==
    IF parts = <<>> THEN <<>>
    ELSE (IF IsRangeToken(Head(parts)) THEN Span(Head(parts)[1], Head(parts)[3])
          ELSE Head(parts)) \o Alphabet(Tail(parts))

IsPrefix(a, b) == Len(a) <= Len(b) /\ SubSeq(b, 1, Len(a)) = a

\* C22: a range token X-Y with X <= Y contributes exactly the characters
\* X..Y in order at the place of the token, next to the literals; a range
\* token with X > Y makes the parse fail.
C22_RangeExpansion ==
    Parsing =>
        LET parts == Split(call.input, <<>>)
            illOrdered == \E n \in 1..Len(parts) :
                             IsRangeToken(parts[n]) /\ parts[n][1] > parts[n][3]
        IN  IF illOrdered
            THEN Parsed => call.err # ""
            ELSE /\ call.err = ""
                 /\ IsPrefix(call.builder, Alphabet(parts))
                 /\ Parsed => call.out = Alphabet(parts)

\* C30: every call of ParseCharset returns.
C30_Terminates == (call.fn = "ParseCharset") ~> (call.fn = "ParseCharset" /\ call.pc = "returned")

\* the statement-by-statement run returns what the ParseCharset operator
\* states, whenever it returns
ParseCharsetAgrees ==
    (call.fn = "ParseCharset" /\ call.pc = "returned") =>
        LET r == ParseCharset(call.input)
        IN  /\ ~r.hangs
            /\ (r.err # "") = (call.err # "")
            /\ r.err = "" => r.charset = call.out

\* row `after` is row `before` with, at most, the address of text t
\* appended to allowed_ips
GrownBy(before, after, t) ==
    /\ after = [before EXCEPT !.allowed_ips = after.allowed_ips]
    /\ \/ after.allowed_ips = before.allowed_ips
       \/ /\ IsAddress(t)
          /\ Len(after.allowed_ips) = Len(before.allowed_ips) + 1
          /\ IsPrefix(before.allowed_ips, after.allowed_ips)
          /\ LET last == after.allowed_ips[Len(after.allowed_ips)]
             IN  <<last.fam, last.bits>> = AddressOf(t)

\* C23: a check removes no entry of AllowedIPs or AllowedNetworks and
\* changes no stored field of any license, except that it may append the
\* caller's address to the AllowedIPs of the license it checks.
C23_CheckOnlyGrows ==
    [][(Answered /\ req'.op = "check") =>
        /\ {l.key : l \in licenses'} = StoredKeys
        /\ \A l \in licenses : \E m \in licenses' :
               /\ m.key = l.key
               /\ IF l.key = req'.key THEN GrownBy(l, m, req'.ip) ELSE m = l
        /\ UNCHANGED <<license_features, license_releases>>]_vars

\* a check from an address that is not on the non-empty allow-list of the
\* license has been answered
C23_Witness ==
    /\ CheckOK /\ req.key \in StoredKeys
    /\ RowOf(req.key).allowed_ips # <<>>
    /\ IsAddress(req.ip)
    /\ ReasonIs("IP address not allowed")

UpdateOK == req.op = "update" /\ resp.code = 200

\* C27: after a license is created or updated with feature codes and
\* release versions, reading it back by key returns exactly the codes and
\* exactly the versions the store linked to it.
C27_ReadBackLinks ==
    (GenerateOK \/ UpdateOK) =>
        LET row == RowOf(req.key)
            read == GetLicenseByKey(req.key).license
        IN  /\ read.Features = LinkedFeatures(row.id)
            /\ read.Releases = LinkedReleases(row)

\* C29: a successful revoke leaves the license's features, releases,
\* AllowedIPs, AllowedNetworks, type and expiry as they were; only its
\* status changes.
C29_RevokeOnlyStatus ==
    [][(Answered /\ req'.op = "revoke" /\ resp'.code = 200) =>
        /\ UNCHANGED <<license_features, license_releases>>
        /\ \A l \in licenses : \E m \in licenses' :
               /\ m.key = l.key
               /\ m = [l EXCEPT !.status = m.status]]_vars

\* the goroutines that finish in this step
Finishing ==
    {g \in 1..Len(threads) : /\ threads[g].fn = "log" /\ threads[g].pc = "go"
                             /\ g <= Len(threads') /\ threads'[g].pc = "done"}

\* the entries of the request being answered whose write has failed
FailedEntries ==
    {threads[g].entry : g \in {h \in 1..Len(threads) :
        threads[h].fn = "log" /\ threads[h].pc = "done" /\ threads[h].err # ""}}

\* C25: the write of an audit entry, failed or not, leaves the request and
\* its response as they are, and when a check or generate request is answered
\* the writes of its entries have not been waited for: they are still running.
C25_LogNeverAffects ==
    [][/\ Finishing # {} => UNCHANGED <<req, resp>>
       /\ (Answered /\ req'.op \in {"check", "generate"}) =>
             \A n \in 1..Len(checkLogs' \o adminLogs') :
                \E g \in 1..Len(threads') :
                   /\ threads'[g].entry = (checkLogs' \o adminLogs')[n]
                   /\ threads'[g].pc = "go"]_vars

\* a valid check and a successful generate whose audit entry failed to be
\* written, with the response they had been given
C25_Witness ==
    \/ /\ CheckOK /\ ValidIs(TRUE)
       /\ checkLogs # <<>> /\ checkLogs[1] \in FailedEntries
    \/ /\ GenerateOK
       /\ adminLogs # <<>> /\ adminLogs[1] \in FailedEntries

\* the check goroutines from an address that the license did not allow
\* when it was first stored
NewCallers ==
    {g \in 1..Len(threads) :
        /\ threads[g].fn = "check" /\ threads[g].key = GrowingLicenseRow.key
        /\ IsAddress(threads[g].ip)
        /\ \A n \in 1..Len(GrowingLicenseRow.allowed_ips) :
               <<GrowingLicenseRow.allowed_ips[n].fam, GrowingLicenseRow.allowed_ips[n].bits>>
                   # AddressOf(threads[g].ip)}

\* C24: while checks of one auto-allow license run concurrently from new
\* addresses, its stored AllowedIPs never has more than AutoAllowedIPLimit + 1
\* entries, the addresses stored before are still there in their places, and
\* every other field of the license is as it was.
C24_RaceBounded ==
    \A l \in licenses :
        l.key = GrowingLicenseRow.key =>
            /\ Len(l.allowed_ips) <= l.auto_allowed_ip_limit + 1
            /\ IsPrefix(GrowingLicenseRow.allowed_ips, l.allowed_ips)
            /\ l = [GrowingLicenseRow EXCEPT !.allowed_ips = l.allowed_ips]

\* two checks from two different new addresses have both been answered
\* while the other one was in progress
C24_Witness ==
    /\ Cardinality(NewCallers) = 2
    /\ \A g \in NewCallers : threads[g].pc = "done" /\ threads[g].code = 200
    /\ Cardinality({threads[g].ip : g \in NewCallers}) = 2

\* C28: once a revoke of a key has returned success the stored status of
\* the license is revoked, whatever updates without a status run
\* concurrently.
C28_RevokeSticks ==
    \A key \in revokedOnce \cap StoredKeys : RowOf(key).status = "revoked"

\* the token buckets of an address that are in use: the one the cache
\* holds for it and those the requests of the address hold
LiveBuckets(ip) ==
    (IF ip \in DOMAIN lru.cache THEN {lru.cache[ip]} ELSE {})
        \cup {threads[g].limiter : g \in {h \in 1..Len(threads) :
                  threads[h].fn = "limit" /\ threads[h].ip = ip /\ threads[h].limiter # 0}}

\* C26: an address has at most one live token bucket, also while several
\* first requests of the address are served concurrently, and without
\* refill at most `burst` of its requests are admitted.
C26_OneBucketPerIP ==
    \A ip \in Callers :
        /\ Cardinality(LiveBuckets(ip)) <= 1
        /\ ip \in DOMAIN lru.admitted => lru.admitted[ip] <= limiters["admin"].b

====
